---- MODULE Spec2Model ----
(***************************************************************************)
(* A model of the demo-parselov runtime: the two-pass finite-state         *)
(* pipeline that turns an input string into a list of edge-set             *)
(* identifiers (three versions of the main script), the GraphViz writer,   *)
(* the backtracking higher-level parser generate_json_formatted_parse_tree *)
(* (two versions) and the parallel "stack graph" simulation of the README. *)
(*                                                                         *)
(* JavaScript and Perl values are modelled as follows.  Identifiers        *)
(* (symbols, states, edge-set ids, vertices) are the JSON integers of the  *)
(* data file; `undefined` is Undef; a JavaScript array is a sequence       *)
(* (index ix of the code is ix + 1 here); a table indexed by an identifier *)
(* is a function whose domain holds the identifiers that have an entry.    *)
(* An uncaught TypeError ends the run in pc = "TypeError".                 *)
(***************************************************************************)
EXTENDS Integers, Sequences, FiniteSets, TLC

\* Longest input, in UTF-16 code units.
MaxLen == 2

\* Most columns (edge-set identifiers) of an edge list handed directly to a
\* higher-level parser, and most edges of the edge set of its data file.
MaxCols == 2
MaxEdges == 5

\* Longest path a parser of the higher-level parser is followed for.
MaxPath == 8

\* JavaScript `undefined` (the value of a missing property or array slot).
Undef == -1

\* The state of combine() in a run that does not call it.
NoCombine == [pc |-> "none"]

VARIABLES
  variant,        \* which version of the main script runs
  as_json,        \* process.argv[4] == "-json"
  g,              \* the parsed data file
  input,          \* the input string, as code units
  pc,             \* position of the run
  s,              \* mapped input symbols
  fstate,         \* state of the forward automaton
  forwards,       \* the list of forward states
  bstate,         \* state of the backward automaton
  mapped,         \* result of the backward map() before it is reversed
  backwards,      \* states variant: the list of backward states
  intersections,  \* states variant: the list of intersections
  edges,          \* the list of edge-set identifiers
  dotIx,          \* write_edges_in_graphviz_dot_format: next column (1-based)
  stdout,         \* chunks written to process.stdout
  stderr,         \* chunks written to process.stderr
  caller,         \* who called the higher-level parser: "main" or "direct"
  version,        \* which version of generate_json_formatted_parse_tree
  parsers,        \* generate_json_formatted_parse_tree: the parsers array
  processed,      \* not in the code: the configurations iterations started from
  tree,           \* its return value
  o,              \* parallel simulation: the edges of the stack graph $o
  parseGraph,     \* parallel simulation: the edges of the parse graph $g
  heads,          \* parallel simulation: @heads
  todo,           \* parallel simulation: @todo
  seen,           \* parallel simulation: the keys of %seen
  ax,             \* parallel simulation: the column $ax
  worked,         \* not in the code: the vertices worked on in the column, in order
  cb              \* combine(): its arguments, @todo, %seen, @states and the state map

pipeVars == <<variant, as_json, g, input, pc, s, fstate, forwards, bstate,
              mapped, backwards, intersections, edges, dotIx, stdout,
              stderr>>
btVars == <<caller, version, parsers, tree, processed>>
prVars == <<o, parseGraph, heads, todo, seen, ax, worked>>
vars == <<pipeVars, btVars, prVars, cb>>

----------------------------------------------------------------------------
(* JavaScript helpers *)

\* obj[k]: the entry, or undefined when there is none.
Prop(obj, k) == IF k \in DOMAIN obj THEN obj[k] ELSE Undef

\* v || 0 for v a number or undefined.
OrZero(v) == IF v = Undef \/ v = 0 THEN 0 ELSE v

\* !v for v a number or undefined.
Falsy(v) == v = Undef \/ v = 0

\* v == "0" (loose equality) for v a number or undefined: the string is
\* converted to the number 0; undefined equals only null and undefined.
LooseEqualsString0(v) == v = 0

\* v === '0' (strict equality) for v a number or undefined: a value of
\* another type is never strictly equal to a string.
StrictEqualsString0(v) == FALSE

\* Array.prototype.reverse
Reverse(a) == [k \in 1..Len(a) |-> a[Len(a) + 1 - k]]

\* arr.indexOf('0'): the first index (0-based) whose element is strictly
\* equal to the string '0', or -1.
IndexOfString0(arr) ==
  LET hits == {k \in 1..Len(arr) : StrictEqualsString0(arr[k])}
  IN  IF hits = {} THEN 0 - 1
      ELSE (CHOOSE k \in hits : \A j \in hits : k <= j) - 1

----------------------------------------------------------------------------
(* Data files.  The vertex graph used by the main script is fixed; the     *)
(* automata range over a family of small tables.                           *)

CodeUnits == 0..2
TableEntries == {Undef, 0, 1, 2}

\* A sparse transition row with at most an entry for symbol 1.
Row(e) == IF e = Undef THEN <<>> ELSE (1 :> e)

\* Code unit 0 maps to symbol 1, code unit 1 to symbol 0, and code unit 2
\* lies outside the map.
InputToSymbol == (0 :> 1) @@ (1 :> 0)

NoVertex == [type |-> "", text |-> "", with |-> Undef, sort_key |-> Undef]
Vtx(t, x, w) == [type |-> t, text |-> x, with |-> w, sort_key |-> Undef]

PipeVertices ==
  (0 :> NoVertex) @@ (1 :> Vtx("start", "S", 2)) @@ (2 :> Vtx("final", "S", 1))
  @@ (3 :> Vtx("start", "A", 4)) @@ (4 :> Vtx("final", "A", 3))
  @@ (5 :> NoVertex)

\* Edge set 1 is the terminal edge set, edge set 2 that of an input symbol.
PipeNullEdges ==
  (0 :> <<>>) @@ (1 :> << <<4, 2>>, <<5, 2>>, <<1, 2>> >>)
  @@ (2 :> << <<1, 3>>, <<1, 2>>, <<1, 4>> >>)
PipeCharEdges ==
  (0 :> <<>>) @@ (1 :> <<>>)
  @@ (2 :> << <<3, 4>>, <<2, 4>>, <<1, 5>>, <<5, 5>> >>)

\* Sparse rows of the backwards automaton, over forward states.
BackwardRows == {<<>>, <<1, 2>>, (0 :> 1) @@ (1 :> 2) @@ (2 :> 0)}

\* The data file shape of README.md: g.forwards and g.backwards.
ReadmeDataFiles ==
  { [ input_to_symbol |-> InputToSymbol,
      forwards |-> (0 :> [transitions |-> <<>>, accepts |-> 0])
               @@ (1 :> [transitions |-> Row(f1), accepts |-> a1])
               @@ (2 :> [transitions |-> Row(f2), accepts |-> a2]),
      backwards |-> (0 :> [transitions |-> <<>>])
                @@ (1 :> [transitions |-> b1])
                @@ (2 :> [transitions |-> b2]),
      states |-> <<>>,
      intersections |-> <<>>,
      vertices |-> PipeVertices,
      null_edges |-> PipeNullEdges,
      char_edges |-> PipeCharEdges,
      start_vertex |-> 1,
      final_vertex |-> 2 ] :
    f1 \in TableEntries, f2 \in TableEntries, a1 \in {0, 1}, a2 \in {0, 1},
    b1 \in BackwardRows, b2 \in BackwardRows }

OldState(row, acc, bstart, ins, term) ==
  [transitions |-> row, is_accepting |-> acc, backward_start |-> bstart,
   intersections |-> ins, terminal_edges |-> term]

\* The data file shape of demo-parselov.js and part_000: one table g.states
\* for both passes (state 3 is where the backward pass starts), and
\* g.intersections.  The placeholder entry of state 0 has is_accepting 0 or
\* no is_accepting at all.
OldDataFiles ==
  { [ input_to_symbol |-> InputToSymbol,
      forwards |-> <<>>,
      backwards |-> <<>>,
      states |-> (0 :> OldState(<<>>, a0, Undef, <<>>, Undef))
             @@ (1 :> OldState(Row(f1), a1, IF a1 = 1 THEN 3 ELSE Undef,
                               (3 :> 1), IF a1 = 1 THEN te ELSE Undef))
             @@ (2 :> OldState(Row(f2), a2, IF a2 = 1 THEN 3 ELSE Undef,
                               (3 :> 1), IF a2 = 1 THEN te ELSE Undef))
             @@ (3 :> OldState(b3, 0, Undef, <<>>, Undef)),
      intersections |-> (0 :> <<>>) @@ (1 :> ((0 :> 1) @@ (1 :> 2))),
      vertices |-> PipeVertices,
      null_edges |-> PipeNullEdges,
      char_edges |-> PipeCharEdges,
      start_vertex |-> 1,
      final_vertex |-> 2 ] :
    f1 \in TableEntries, f2 \in TableEntries, a1 \in {0, 1}, a2 \in {0, 1},
    b3 \in {Row(Undef), Row(3), Row(0)}, te \in {0, 1}, a0 \in {0, Undef} }

Inputs == UNION {[1..n -> CodeUnits] : n \in 0..MaxLen}

----------------------------------------------------------------------------
(* The main script: zlib.gunzip callback *)

Init ==
  /\ variant \in {"readme", "states", "part0"}
  /\ as_json \in (IF variant = "states" THEN BOOLEAN ELSE {FALSE})
  /\ g \in (IF variant = "readme" THEN ReadmeDataFiles ELSE OldDataFiles)
  /\ input \in Inputs
  /\ pc = "map"
  /\ s = <<>>
  /\ fstate = 1
  /\ forwards = <<>>
  /\ bstate = 1
  /\ mapped = <<>>
  /\ backwards = <<>>
  /\ intersections = <<>>
  /\ edges = <<>>
  /\ dotIx = 1
  /\ stdout = <<>>
  /\ stderr = <<>>
  /\ caller = "main"
  /\ version = "js"
  /\ parsers = <<>>
  /\ tree = [kind |-> "none", out |-> <<>>, path |-> <<>>]
  /\ processed = {}
  /\ o = {}
  /\ parseGraph = {}
  /\ heads = <<>>
  /\ todo = <<>>
  /\ seen = {}
  /\ ax = 0
  /\ worked = <<>>
  /\ cb = NoCombine

\* g.input_to_symbol[ ch.charCodeAt(0) ] || 0
MapSymbol(d, ch) == OrZero(Prop(d.input_to_symbol, ch))

\* g.input_to_symbol[ ch.charCodeAt(0) ]
MapSymbolPart0(d, ch) == Prop(d.input_to_symbol, ch)

\* var s = [].map.call(input, ...); var fstate = 1; [fstate].concat(...)
MapInput ==
  /\ pc = "map"
  /\ s' = [k \in 1..Len(input) |->
             IF variant = "part0" THEN MapSymbolPart0(g, input[k])
             ELSE MapSymbol(g, input[k])]
  /\ fstate' = 1
  /\ forwards' = <<1>>
  /\ pc' = "forward"
  /\ UNCHANGED <<variant, as_json, g, input, bstate, mapped, backwards,
                 intersections, edges, dotIx, stdout, stderr, btVars, prVars,
                 cb>>

\* g.forwards[fstate].transitions[i] || 0
ForwardTransition(d, st, i) == OrZero(Prop(d.forwards[st].transitions, i))

\* g.states[fstate].transitions[i]
StatesTransition(d, st, i) == Prop(d.states[st].transitions, i)

\* One call of the callback of s.map() in the forward pass.
ForwardStep ==
  /\ pc = "forward"
  /\ Len(forwards) <= Len(s)
  /\ LET i == s[Len(forwards)]
         table == IF variant = "readme" THEN g.forwards ELSE g.states
     IN  IF fstate \notin DOMAIN table
         THEN /\ pc' = "TypeError"
              /\ UNCHANGED <<fstate, forwards>>
         ELSE LET next == IF variant = "readme"
                          THEN ForwardTransition(g, fstate, i)
                          ELSE StatesTransition(g, fstate, i)
              IN  /\ fstate' = next
                  /\ forwards' = Append(forwards, next)
                  /\ pc' = "forward"
  /\ UNCHANGED <<variant, as_json, g, input, s, bstate, mapped, backwards,
                 intersections, edges, dotIx, stdout, stderr, btVars, prVars,
                 cb>>

\* s.map() has visited every symbol.
ForwardDone ==
  /\ pc = "forward"
  /\ Len(forwards) = Len(s) + 1
  /\ pc' = "check"
  /\ UNCHANGED <<variant, as_json, g, input, s, fstate, forwards, bstate,
                 mapped, backwards, intersections, edges, dotIx, stdout,
                 stderr, btVars, prVars, cb>>

\* A test that lets every final state pass.
ReadmeRejectsNever(d, st) == FALSE

\* g.forwards[fstate].accepts == "0"
ReadmeRejects(d, st) == LooseEqualsString0(d.forwards[st].accepts)

\* A test that takes only a missing is_accepting for "not accepting".
StatesRejectsOnlyUndefined(d, st) == d.states[st].is_accepting = Undef

\* !g.states[fstate].is_accepting
StatesRejects(d, st) == Falsy(d.states[st].is_accepting)

\* part_000: the body of the if statement is empty.
Part0Rejects(d, st) == FALSE

\* "failed around " + forwards.indexOf('0')
FailedAround(fw) == <<"failed around", IndexOfString0(fw)>>

\* The if statement after the forward pass.
AcceptCheck ==
  /\ pc = "check"
  /\ LET table == IF variant = "readme" THEN g.forwards ELSE g.states
     IN  IF fstate \notin DOMAIN table
         THEN /\ pc' = "TypeError"
              /\ UNCHANGED stderr
         ELSE LET rejects == CASE variant = "readme" -> ReadmeRejects(g, fstate)
                               [] variant = "states" -> StatesRejects(g, fstate)
                               [] OTHER -> Part0Rejects(g, fstate)
              IN  IF rejects
                  THEN /\ stderr' = Append(stderr, FailedAround(forwards))
                       /\ pc' = "rejected"
                  ELSE /\ pc' = "backward"
                       /\ UNCHANGED stderr
  /\ UNCHANGED <<variant, as_json, g, input, s, fstate, forwards, bstate,
                 mapped, backwards, intersections, edges, dotIx, stdout,
                 btVars, prVars, cb>>

\* README: var bstate = 1; forwards.reverse() (in place)
BackwardStart ==
  /\ pc = "backward"
  /\ variant = "readme"
  /\ bstate' = 1
  /\ forwards' = Reverse(forwards)
  /\ mapped' = <<>>
  /\ pc' = "bmap"
  /\ UNCHANGED <<variant, as_json, g, input, s, fstate, backwards,
                 intersections, edges, dotIx, stdout, stderr, btVars, prVars,
                 cb>>

\* The backward transition without the default for a missing entry.
BackwardTransitionNoDefault(d, st, i) == Prop(d.backwards[st].transitions, i)

\* g.backwards[bstate].transitions[i] || 0
BackwardTransition(d, st, i) == OrZero(Prop(d.backwards[st].transitions, i))

\* README: one call of the callback of forwards.reverse().map()
BackwardStep ==
  /\ pc = "bmap"
  /\ variant = "readme"
  /\ Len(mapped) < Len(forwards)
  /\ LET i == forwards[Len(mapped) + 1]
     IN  IF bstate \notin DOMAIN g.backwards
         THEN /\ pc' = "TypeError"
              /\ UNCHANGED <<bstate, mapped>>
         ELSE LET next == BackwardTransition(g, bstate, i)
              IN  /\ bstate' = next
                  /\ mapped' = Append(mapped, next)
                  /\ pc' = "bmap"
  /\ UNCHANGED <<variant, as_json, g, input, s, fstate, forwards, backwards,
                 intersections, edges, dotIx, stdout, stderr, btVars, prVars,
                 cb>>

\* The end of the backward pass without the trailing .reverse().
BackwardDoneUnreversed ==
  /\ pc = "bmap"
  /\ variant = "readme"
  /\ Len(mapped) = Len(forwards)
  /\ edges' = mapped
  /\ pc' = "emit"
  /\ UNCHANGED <<variant, as_json, g, input, s, fstate, forwards, bstate,
                 mapped, backwards, intersections, dotIx, stdout, stderr,
                 btVars, prVars, cb>>

\* README: the trailing .reverse() that yields `edges`
BackwardDone ==
  /\ pc = "bmap"
  /\ variant = "readme"
  /\ Len(mapped) = Len(forwards)
  /\ edges' = Reverse(mapped)
  /\ pc' = "emit"
  /\ UNCHANGED <<variant, as_json, g, input, s, fstate, forwards, bstate,
                 mapped, backwards, intersections, dotIx, stdout, stderr,
                 btVars, prVars, cb>>

\* states variant: var bstate = g.states[fstate].backward_start; s.reverse()
StatesBackwardStart ==
  /\ pc = "backward"
  /\ variant # "readme"
  /\ IF fstate \notin DOMAIN g.states
     THEN /\ pc' = "TypeError"
          /\ UNCHANGED <<bstate, s, backwards>>
     ELSE /\ bstate' = g.states[fstate].backward_start
          /\ s' = Reverse(s)
          /\ backwards' = <<>>
          /\ pc' = "bmap"
  /\ UNCHANGED <<variant, as_json, g, input, fstate, forwards, mapped,
                 intersections, edges, dotIx, stdout, stderr, btVars, prVars,
                 cb>>

\* states variant: one call of the callback of s.reverse().map()
StatesBackwardStep ==
  /\ pc = "bmap"
  /\ variant # "readme"
  /\ Len(backwards) < Len(s)
  /\ LET i == s[Len(backwards) + 1]
     IN  IF bstate \notin DOMAIN g.states
         THEN /\ pc' = "TypeError"
              /\ UNCHANGED <<bstate, backwards>>
         ELSE LET next == StatesTransition(g, bstate, i)
              IN  /\ bstate' = next
                  /\ backwards' = Append(backwards, next)
                  /\ pc' = "bmap"
  /\ UNCHANGED <<variant, as_json, g, input, s, fstate, forwards, mapped,
                 intersections, edges, dotIx, stdout, stderr, btVars, prVars,
                 cb>>

\* g.states[ forwards[ix] ].intersections[bck] || 0
Intersection(d, fw, bck) == OrZero(Prop(d.states[fw].intersections, bck))

\* states variant: var intersections = backwards.reverse().map(...)
StatesIntersections ==
  /\ pc = "bmap"
  /\ variant # "readme"
  /\ Len(backwards) = Len(s)
  /\ LET rev == Reverse(backwards)
     IN  /\ backwards' = rev
         /\ IF \E ix \in 1..Len(rev) : forwards[ix] \notin DOMAIN g.states
            THEN /\ pc' = "TypeError"
                 /\ UNCHANGED intersections
            ELSE /\ intersections' =
                      [ix \in 1..Len(rev) |-> Intersection(g, forwards[ix], rev[ix])]
                 /\ pc' = "inter"
  /\ UNCHANGED <<variant, as_json, g, input, s, fstate, forwards, bstate,
                 mapped, edges, dotIx, stdout, stderr, btVars, prVars, cb>>

\* g.intersections[ins][ s[ix] ]
EdgeOf(d, ins, sym) == Prop(d.intersections[ins], sym)

\* The edge list without the concatenated terminal edge set.
StatesEdgesNoTerminal ==
  /\ pc = "inter"
  /\ s' = Reverse(s)
  /\ edges' = [ix \in 1..Len(intersections) |-> 0]
  /\ pc' = "emit"
  /\ UNCHANGED <<variant, as_json, g, input, fstate, forwards, bstate,
                 mapped, backwards, intersections, dotIx, stdout, stderr,
                 btVars, prVars, cb>>

\* The edge list computed without the s.reverse() that restores the symbols.
StatesEdgesUnrestored ==
  /\ pc = "inter"
  /\ IF \E ix \in 1..Len(intersections) :
          intersections[ix] \notin DOMAIN g.intersections
     THEN /\ pc' = "TypeError"
          /\ UNCHANGED edges
     ELSE /\ edges' =
               [ix \in 1..Len(intersections) |->
                   EdgeOf(g, intersections[ix], s[ix])]
               \o <<g.states[fstate].terminal_edges>>
          /\ pc' = "emit"
  /\ UNCHANGED <<variant, as_json, g, input, s, fstate, forwards, bstate,
                 mapped, backwards, intersections, dotIx, stdout, stderr,
                 btVars, prVars, cb>>

\* states variant: s.reverse(); var edges = intersections.map(...).concat(...)
StatesEdges ==
  /\ pc = "inter"
  /\ LET orig == Reverse(s)
     IN  /\ s' = orig
         /\ IF \E ix \in 1..Len(intersections) :
                 intersections[ix] \notin DOMAIN g.intersections
            THEN /\ pc' = "TypeError"
                 /\ UNCHANGED edges
            ELSE /\ edges' =
                      [ix \in 1..Len(intersections) |->
                          EdgeOf(g, intersections[ix], orig[ix])]
                      \o <<g.states[fstate].terminal_edges>>
                 /\ pc' = "emit"
  /\ UNCHANGED <<variant, as_json, g, input, fstate, forwards, bstate,
                 mapped, backwards, intersections, dotIx, stdout, stderr,
                 btVars, prVars, cb>>

----------------------------------------------------------------------------
(* write_edges_in_graphviz_dot_format *)

RECURSIVE Flatten(_)
Flatten(ss) == IF ss = <<>> THEN <<>> ELSE Head(ss) \o Flatten(Tail(ss))

Chunk(kind, val) == [kind |-> kind, val |-> val]

\* print_label(offset, v): the label text is g.vertices[v]'s type and text.
LabelLine(offset, v) == Chunk("label", <<offset, v>>)

\* The three writes made for one edge e of column ix leading to column to.
EdgeLines(ix, e, to) ==
  << Chunk("edge", <<ix, e[1], to, e[2]>>), LabelLine(ix, e[1]),
     LabelLine(to, e[2]) >>

\* A char edge written as if it stayed in its column.
SameColumn(ix) == ix

\* ix + 1: the column a char edge of column ix leads to.
NextColumn(ix) == ix + 1

\* Whether print_label can read g.vertices[v].type for both ends of e.
Labelled(d, es) ==
  \A k \in 1..Len(es) : es[k][1] \in DOMAIN d.vertices
                        /\ es[k][2] \in DOMAIN d.vertices

\* if (as_json) ... else: the call of the GraphViz writer and its first write.
EmitStart ==
  /\ pc = "emit"
  /\ ~(variant = "states" /\ as_json)
  /\ stdout' = Append(stdout, Chunk("digraph", <<>>))
  /\ dotIx' = 1
  /\ pc' = "dot"
  /\ UNCHANGED <<variant, as_json, g, input, s, fstate, forwards, bstate,
                 mapped, backwards, intersections, edges, stderr, btVars, prVars,
                 cb>>

\* One call of the callback of edges.forEach().
DotColumn ==
  /\ pc = "dot"
  /\ dotIx <= Len(edges)
  /\ LET id == edges[dotIx]
         ix == dotIx - 1
         nulls == Prop(g.null_edges, id)
         chars == Prop(g.char_edges, id)
         nullLines == Flatten([k \in 1..Len(nulls) |-> EdgeLines(ix, nulls[k], ix)])
         charLines == Flatten([k \in 1..Len(chars) |->
                                 EdgeLines(ix, chars[k], NextColumn(ix))])
     IN  IF id \notin DOMAIN g.null_edges \/ ~Labelled(g, nulls)
         THEN /\ pc' = "TypeError"
              /\ UNCHANGED <<stdout, dotIx>>
         ELSE IF id \notin DOMAIN g.char_edges \/ ~Labelled(g, chars)
         THEN /\ pc' = "TypeError"
              /\ stdout' = stdout \o nullLines
              /\ UNCHANGED dotIx
         ELSE /\ stdout' = stdout \o nullLines \o charLines
              /\ dotIx' = dotIx + 1
              /\ pc' = "dot"
  /\ UNCHANGED <<variant, as_json, g, input, s, fstate, forwards, bstate,
                 mapped, backwards, intersections, edges, stderr, btVars, prVars,
                 cb>>

\* process.stdout.write("}\n") and the return to the main script.
DotDone ==
  /\ pc = "dot"
  /\ dotIx = Len(edges) + 1
  /\ stdout' = Append(stdout, Chunk("}", <<>>))
  /\ pc' = "done"
  /\ UNCHANGED <<variant, as_json, g, input, s, fstate, forwards, bstate,
                 mapped, backwards, intersections, edges, dotIx, stderr,
                 btVars, prVars, cb>>

----------------------------------------------------------------------------
(* generate_json_formatted_parse_tree *)

Front(q) == SubSeq(q, 1, Len(q) - 1)
Last(q) == q[Len(q)]

\* The parser the function starts with.  `stack` is what the parser's array
\* holds and `array` tells which array object that is: it is named by the
\* path of the parser it was made for.  Four fields are not in the code:
\* `path` records the (offset, vertex) pairs the parser has visited,
\* `visited` the configurations it has had at the top of the loop since it
\* was recorded, `lineage` those of the parsers it descends from as well,
\* and `cyclic` whether one of these had the configuration of one before it.
FirstParser(d) ==
  [output |-> <<>>, offset |-> 0, vertex |-> d.start_vertex, stack |-> <<>>,
   array |-> << <<0, d.start_vertex>> >>,
   path |-> << <<0, d.start_vertex>> >>, visited |-> {}, lineage |-> {},
   cyclic |-> FALSE]

\* if (as_json) { var tree = generate_json_formatted_parse_tree(g, edges);
CallParser ==
  /\ pc = "emit"
  /\ variant = "states" /\ as_json
  /\ parsers' = <<FirstParser(g)>>
  /\ pc' = "json"
  /\ UNCHANGED <<variant, as_json, g, input, s, fstate, forwards, bstate,
                 mapped, backwards, intersections, edges, dotIx, stdout,
                 stderr, caller, version, tree, processed, prVars, cb>>

\* A `start` vertex that pushes its frame and writes nothing.
OpenFrameUnwritten(p) ==
  [p EXCEPT !.stack = Append(@, [vertex |-> p.vertex, offset |-> p.offset])]

\* p.stack.push(...); p.output += ... for a `start` vertex.
OpenFrame(p) ==
  [p EXCEPT !.stack = Append(@, [vertex |-> p.vertex, offset |-> p.offset]),
            !.output = Append(@, <<"[", p.vertex, Len(p.stack) + 1>>)]

\* A `final` vertex that closes whatever frame is on top of the stack.
WithMismatchNever(d, p, top) == FALSE

\* p.vertex != g.vertices[top.vertex]["with"]
WithMismatch(d, p, top) == p.vertex # d.vertices[top.vertex].with

\* A closing that writes the parser's offset for both ends of the node.
CloseFrameAtOwnOffset(p) ==
  [p EXCEPT !.stack = Front(@),
            !.output = Append(@, <<"]", p.offset, p.offset>>)]

\* var top = p.stack.pop(); p.output += '], ' + top.offset + ', ' + p.offset
CloseFrame(p) ==
  [p EXCEPT !.stack = Front(@),
            !.output = Append(@, <<"]", Last(p.stack).offset, p.offset>>)]

\* A match as soon as the final vertex is reached.
AcceptsAtFinalVertex(d, es, p) == d.final_vertex = p.vertex

\* The three conditions of a successful match.
Accepts(d, es, p) ==
  /\ d.final_vertex = p.vertex
  /\ p.offset + 1 >= Len(es)
  /\ p.stack = <<>>

\* README.md only: if (p.offset >= edges.length)
PastEnd(es, p) == version = "readme" /\ p.offset >= Len(es)

\* edges[p.offset]
EdgeAt(es, off) == IF off + 1 \in 1..Len(es) THEN es[off + 1] ELSE Undef

\* The list without the filter: every pair gives a successor.
MatchingAny(list, v, kind) ==
  [k \in 1..Len(list) |-> [successor |-> list[k][2], type |-> kind]]

\* list.filter(e[0] == p.vertex).map({ successor: e[1], type: kind })
Matching(list, v, kind) ==
  LET Test(e) == e[1] = v
      hits == SelectSeq(list, Test)
  IN  [k \in 1..Len(hits) |-> [successor |-> hits[k][2], type |-> kind]]

\* g.vertices[a.successor].sort_key || 0
SortKey(d, v) == OrZero(d.vertices[v].sort_key)

\* successors.sort(...) by sort_key: for the short lists of the model the
\* JavaScript engines sort by insertion, which keeps equal keys in order.
\* An insertion that puts x before the elements of its own key.
RECURSIVE InsertBeforeEqualKeys(_, _, _)
InsertBeforeEqualKeys(d, sorted, x) ==
  IF sorted = <<>> THEN <<x>>
  ELSE IF SortKey(d, Head(sorted).successor) < SortKey(d, x.successor)
       THEN <<Head(sorted)>> \o InsertBeforeEqualKeys(d, Tail(sorted), x)
       ELSE <<x>> \o sorted

RECURSIVE InsertByKey(_, _, _)
InsertByKey(d, sorted, x) ==
  IF sorted = <<>> THEN <<x>>
  ELSE IF SortKey(d, Head(sorted).successor) <= SortKey(d, x.successor)
       THEN <<Head(sorted)>> \o InsertByKey(d, Tail(sorted), x)
       ELSE <<x>> \o sorted

RECURSIVE SortSuccessors(_, _)
SortSuccessors(d, ss) ==
  IF ss = <<>> THEN <<>>
  ELSE InsertByKey(d, SortSuccessors(d, Front(ss)), Last(ss))

\* var successors = ns.concat(cs); successors.sort(...)
Successors(d, es, p) ==
  LET id == EdgeAt(es, p.offset)
  IN  SortSuccessors(d, Matching(d.null_edges[id], p.vertex, "null")
                        \o Matching(d.char_edges[id], p.vertex, "char"))

\* The parser made from (or moved to) successor sc of parser p.
Moved(p, sc) ==
  LET off == IF sc.type = "char" THEN p.offset + 1 ELSE p.offset
  IN  [p EXCEPT !.offset = off, !.vertex = sc.successor,
                !.path = Append(@, <<off, sc.successor>>)]

\* What the head parser's next iteration depends on, at the top of the loop.
Config(p) == <<p.offset, p.vertex, p.stack>>

\* stack: p.stack, the array of the head parser itself.
StackShared(p, made) == p.array

\* stack: p.stack.slice(), a new array with the frames of p.stack.
StackSlice(p, made) == made.path

\* p.stack.push(...) and p.stack.pop() change an array object: every parser
\* of q that holds the array `id` has the stack `stk` afterwards.
Through(q, id, stk) ==
  [k \in 1..Len(q) |->
     IF q[k].array = id THEN [q[k] EXCEPT !.stack = stk] ELSE q[k]]

\* Moved(p2, sc) with the records that are not in the code: p0 is the parser
\* at the top of the iteration, `same` tells the head parser from a new one,
\* which gets a slice of the stack.
Descendant(p0, p2, sc, same) ==
  [Moved(p2, sc) EXCEPT
     !.array = IF same THEN p2.array ELSE StackSlice(p2, Moved(p2, sc)),
     !.visited = IF same THEN p0.visited \cup {Config(p0)} ELSE {},
     !.lineage = p0.lineage \cup {Config(p0)},
     !.cyclic = p0.cyclic \/ Config(p0) \in p0.lineage]

\* No iteration to come does anything an earlier one has not done (every
\* parser of the array has a configuration an iteration has started from)
\* and some parser descends from a parser of its own configuration, so that
\* the array never runs empty.
Repeats(q, done) ==
  /\ \A k \in 1..Len(q) : Config(q[k]) \in done
  /\ \E k \in 1..Len(q) : q[k].cyclic

\* An iteration that records no parser for the other successors.
SpawnNone(q, alts) == q

\* successors.forEach(function(s) { parsers.push({...}) }): the parsers for
\* the other successors go to the end of the array.
Spawn(q, alts) == q \o alts

\* successors.sort(...) and successors.shift() applied to the data file's
\* own list of null edges.
DataFileSortedInPlace(d, es, p) ==
  LET id == EdgeAt(es, p.offset)
      asSuccessors == [k \in 1..Len(d.null_edges[id]) |->
                         [successor |-> d.null_edges[id][k][2], at |-> k]]
      sorted == SortSuccessors(d, asSuccessors)
      list == [k \in 1..Len(sorted) |-> d.null_edges[id][sorted[k].at]]
  IN  [d EXCEPT !.null_edges[id] = IF list = <<>> THEN list ELSE Tail(list)]

\* The data file after successors.sort(...) and successors.shift(): filter,
\* map and concat made new arrays, so the lists of the data file are as they
\* were.
DataFileAfterSort(d, es, p) == d

\* One iteration of while (parsers.length).  What an iteration does depends
\* on the configuration of the head parser only, so the loop never ends once
\* the head parser is back in a configuration it has been in, or once the
\* array Repeats: the model records that as pc = "diverged".
ParserStep ==
  /\ pc = "json"
  /\ parsers # <<>>
  /\ Len(parsers[1].path) < MaxPath
  /\ LET p0 == parsers[1]
     IN  IF p0.vertex \notin DOMAIN g.vertices
         THEN /\ pc' = "TypeError"
              /\ UNCHANGED <<parsers, tree, g>>
         ELSE IF Config(p0) \in p0.visited \/ Repeats(parsers, processed)
         THEN /\ pc' = "diverged"
              /\ UNCHANGED <<parsers, tree, g>>
         ELSE
         LET type == g.vertices[p0.vertex].type
             p1 == IF type = "start" THEN OpenFrame(p0) ELSE p0
             discard == /\ type = "final"
                        /\ \/ p1.stack = <<>>
                           \/ WithMismatch(g, p1, Last(p1.stack))
             p2 == IF type = "final" /\ ~discard THEN CloseFrame(p1) ELSE p1
             popped == IF type = "final" /\ p1.stack # <<>>
                       THEN Front(p1.stack) ELSE p1.stack
             others == Through(Tail(parsers), p0.array, popped)
             id == EdgeAt(edges, p2.offset)
         IN  IF discard
             THEN /\ parsers' = others
                  /\ UNCHANGED <<pc, tree, g>>
             ELSE IF Accepts(g, edges, p2)
             THEN /\ tree' = [kind |-> "tree", out |-> p2.output,
                              path |-> p2.path]
                  /\ parsers' = <<p2>> \o others
                  /\ pc' = "returned"
                  /\ UNCHANGED g
             ELSE IF PastEnd(edges, p2)
             THEN /\ parsers' = others
                  /\ UNCHANGED <<pc, tree, g>>
             ELSE IF id \notin DOMAIN g.char_edges \/ id \notin DOMAIN g.null_edges
             THEN /\ pc' = "TypeError"
                  /\ parsers' = <<p2>> \o others
                  /\ UNCHANGED <<tree, g>>
             ELSE
             LET successors == Successors(g, edges, p2)
             IN  IF successors = <<>>
                 THEN /\ parsers' = others
                      /\ g' = DataFileAfterSort(g, edges, p2)
                      /\ UNCHANGED <<pc, tree>>
                 ELSE /\ parsers' =
                           Spawn(<<Descendant(p0, p2, successors[1], TRUE)>>
                                 \o others,
                                 [k \in 1..Len(successors) - 1 |->
                                    Descendant(p0, p2, successors[k + 1],
                                               FALSE)])
                      /\ g' = DataFileAfterSort(g, edges, p2)
                      /\ UNCHANGED <<pc, tree>>
  /\ processed' = processed \cup {Config(parsers[1])}
  /\ UNCHANGED <<variant, as_json, input, s, fstate, forwards, bstate,
                 mapped, backwards, intersections, edges, dotIx, stdout,
                 stderr, caller, version, prVars, cb>>

\* The while loop ends with no parser left: the function returns undefined.
ParserExhausted ==
  /\ pc = "json"
  /\ parsers = <<>>
  /\ tree' = [kind |-> "undefined", out |-> <<>>, path |-> <<>>]
  /\ pc' = "returned"
  /\ UNCHANGED <<variant, as_json, g, input, s, fstate, forwards, bstate,
                 mapped, backwards, intersections, edges, dotIx, stdout,
                 stderr, caller, version, parsers, processed, prVars, cb>>

\* tree + "\n": string concatenation turns undefined into "undefined".
TreeText(tr) == Chunk(IF tr.kind = "undefined" THEN "undefined" ELSE "tree",
                      tr.out)

\* process.stdout.write(tree + "\n"); return;
WriteTree ==
  /\ pc = "returned"
  /\ caller = "main"
  /\ stdout' = Append(stdout, TreeText(tree))
  /\ pc' = "done"
  /\ UNCHANGED <<variant, as_json, g, input, s, fstate, forwards, bstate,
                 mapped, backwards, intersections, edges, dotIx, stderr,
                 btVars, prVars, cb>>

----------------------------------------------------------------------------
(* The run of the main script *)

Next ==
  \/ MapInput
  \/ ForwardStep
  \/ ForwardDone
  \/ AcceptCheck
  \/ BackwardStart
  \/ BackwardStep
  \/ BackwardDone
  \/ StatesBackwardStart
  \/ StatesBackwardStep
  \/ StatesIntersections
  \/ StatesEdges
  \/ EmitStart
  \/ DotColumn
  \/ DotDone
  \/ CallParser
  \/ ParserStep
  \/ ParserExhausted
  \/ WriteTree

Spec == Init /\ [][Next]_vars

----------------------------------------------------------------------------
(* The main script given a data file that lacks a part *)

\* f without its entry for key.
Without(f, key) == [k \in DOMAIN f \ {key} |-> f[k]]

\* What JSON.parse(buf) yields for a file without start_vertex, without
\* final_vertex, without state 1 in its tables, or with fewer lists of char
\* edges than of null edges.
Lacking(d, part) ==
  CASE part = "start_vertex" -> [d EXCEPT !.start_vertex = Undef]
    [] part = "final_vertex" -> [d EXCEPT !.final_vertex = Undef]
    [] part = "state 1" -> [d EXCEPT !.forwards = Without(@, 1),
                                     !.backwards = Without(@, 1),
                                     !.states = Without(@, 1)]
    [] part = "char_edges" -> [d EXCEPT !.char_edges = Without(@, 2)]

Parts == {"start_vertex", "final_vertex", "state 1", "char_edges"}

\* var g = JSON.parse(buf); with such a file.
InitLacking ==
  /\ variant \in {"readme", "states", "part0"}
  /\ as_json \in (IF variant = "states" THEN BOOLEAN ELSE {FALSE})
  /\ g \in {Lacking(d, part) :
              d \in (IF variant = "readme" THEN ReadmeDataFiles
                                           ELSE OldDataFiles),
              part \in Parts}
  /\ input \in Inputs
  /\ pc = "map"
  /\ s = <<>>
  /\ fstate = 1
  /\ forwards = <<>>
  /\ bstate = 1
  /\ mapped = <<>>
  /\ backwards = <<>>
  /\ intersections = <<>>
  /\ edges = <<>>
  /\ dotIx = 1
  /\ stdout = <<>>
  /\ stderr = <<>>
  /\ caller = "main"
  /\ version = "js"
  /\ parsers = <<>>
  /\ tree = [kind |-> "none", out |-> <<>>, path |-> <<>>]
  /\ processed = {}
  /\ o = {}
  /\ parseGraph = {}
  /\ heads = <<>>
  /\ todo = <<>>
  /\ seen = {}
  /\ ax = 0
  /\ worked = <<>>
  /\ cb = NoCombine

SpecLacking == InitLacking /\ [][Next]_vars

----------------------------------------------------------------------------
(* The states/intersections scripts over data files with two symbols *)

\* Code unit 0 maps to symbol 1, code unit 1 to symbol 2, and code unit 2
\* lies outside the map.
InputToTwoSymbols == (0 :> 1) @@ (1 :> 2)

\* A transition row with an entry for each of the two symbols.
Row2(e1, e2) == (1 :> e1) @@ (2 :> e2)

ForwardRows2 == {Row2(1, 2), Row2(2, 1), Row2(2, 2)}
BackwardRows2 == {Row2(3, 4), Row2(4, 3), Row2(4, 4)}
EdgeSetIds == {0, 2}

\* Data files of the shape of demo-parselov.js and part_000: forward states
\* 1 and 2, both accepting, backward states 3 and 4, the backward pass
\* starting in state 3, and two intersections with an edge set per symbol.
TwoSymbolDataFiles ==
  { [ input_to_symbol |-> InputToTwoSymbols,
      forwards |-> <<>>,
      backwards |-> <<>>,
      states |-> (0 :> OldState(<<>>, 0, Undef, <<>>, Undef))
             @@ (1 :> OldState(f1, 1, 3, (3 :> 1) @@ (4 :> 2), 1))
             @@ (2 :> OldState(Row2(1, 2), 1, 3, (3 :> 2) @@ (4 :> 1), 1))
             @@ (3 :> OldState(b3, 0, Undef, <<>>, Undef))
             @@ (4 :> OldState(b4, 0, Undef, <<>>, Undef)),
      intersections |-> (0 :> <<>>) @@ (1 :> Row2(e11, e12))
                        @@ (2 :> Row2(e21, e22)),
      vertices |-> PipeVertices,
      null_edges |-> PipeNullEdges,
      char_edges |-> PipeCharEdges,
      start_vertex |-> 1,
      final_vertex |-> 2 ] :
    f1 \in ForwardRows2, b3 \in BackwardRows2, b4 \in BackwardRows2,
    e11 \in EdgeSetIds, e12 \in EdgeSetIds, e21 \in EdgeSetIds,
    e22 \in EdgeSetIds }

InitStates ==
  /\ variant \in {"states", "part0"}
  /\ as_json \in (IF variant = "states" THEN BOOLEAN ELSE {FALSE})
  /\ g \in TwoSymbolDataFiles
  /\ input \in Inputs
  /\ pc = "map"
  /\ s = <<>>
  /\ fstate = 1
  /\ forwards = <<>>
  /\ bstate = 1
  /\ mapped = <<>>
  /\ backwards = <<>>
  /\ intersections = <<>>
  /\ edges = <<>>
  /\ dotIx = 1
  /\ stdout = <<>>
  /\ stderr = <<>>
  /\ caller = "main"
  /\ version = "js"
  /\ parsers = <<>>
  /\ tree = [kind |-> "none", out |-> <<>>, path |-> <<>>]
  /\ processed = {}
  /\ o = {}
  /\ parseGraph = {}
  /\ heads = <<>>
  /\ todo = <<>>
  /\ seen = {}
  /\ ax = 0
  /\ worked = <<>>
  /\ cb = NoCombine

\* The steps of demo-parselov.js and part_000, which have no g.backwards.
NextStates ==
  \/ MapInput
  \/ ForwardStep
  \/ ForwardDone
  \/ AcceptCheck
  \/ StatesBackwardStart
  \/ StatesBackwardStep
  \/ StatesIntersections
  \/ StatesEdges
  \/ EmitStart
  \/ DotColumn
  \/ DotDone
  \/ CallParser
  \/ ParserStep
  \/ ParserExhausted
  \/ WriteTree

SpecStates == InitStates /\ [][NextStates]_vars

----------------------------------------------------------------------------
(* Data files and edge lists for the higher-level parsers called directly. *)

GraphVertices ==
  (0 :> NoVertex) @@ (1 :> Vtx("start", "S", 2)) @@ (2 :> Vtx("final", "S", 1))
  @@ (3 :> Vtx("start", "A", 4)) @@ (4 :> Vtx("final", "A", 3))
  @@ (5 :> NoVertex)
  @@ (6 :> Vtx("final", "B", 7)) @@ (7 :> Vtx("start", "B", 6))

\* The same vertices with sort_key 1 on vertices 2 and 4.
KeyedVertices ==
  [v \in DOMAIN GraphVertices |->
     IF v \in {2, 4} THEN [GraphVertices[v] EXCEPT !.sort_key = 1]
     ELSE GraphVertices[v]]

\* The edges an edge set is drawn from.
EdgePool ==
  << <<"null", 1, 3>>, <<"null", 1, 2>>, <<"null", 3, 4>>, <<"null", 3, 6>>,
     <<"null", 4, 2>>, <<"null", 6, 2>>, <<"null", 4, 3>>, <<"null", 5, 2>>,
     <<"char", 1, 5>>, <<"char", 5, 5>>, <<"char", 3, 4>>, <<"char", 5, 2>> >>

\* The edges of kind `kind` among those of the pool chosen by `chosen`, in
\* pool order.
RECURSIVE EdgeList(_, _, _, _)
EdgeList(pool, kind, chosen, k) ==
  IF k > Len(pool) THEN <<>>
  ELSE (IF k \in chosen /\ pool[k][1] = kind
        THEN << <<pool[k][2], pool[k][3]>> >> ELSE <<>>)
       \o EdgeList(pool, kind, chosen, k + 1)

\* Edge set 1 holds the chosen edges; edge set 2 holds its null edges only,
\* as the edge set of the end of the input does; edge set 0 is empty.
GraphFilesFrom(pool, tables) ==
  { [ input_to_symbol |-> <<>>,
      forwards |-> <<>>,
      backwards |-> <<>>,
      states |-> <<>>,
      intersections |-> <<>>,
      vertices |-> vertices,
      null_edges |-> (0 :> <<>>) @@ (1 :> EdgeList(pool, "null", chosen, 1))
                     @@ (2 :> EdgeList(pool, "null", chosen, 1)),
      char_edges |-> (0 :> <<>>) @@ (1 :> EdgeList(pool, "char", chosen, 1))
                     @@ (2 :> <<>>),
      start_vertex |-> 1,
      final_vertex |-> 2 ] :
    chosen \in {c \in SUBSET (1..Len(pool)) : Cardinality(c) <= MaxEdges},
    vertices \in tables }

GraphFilesWith(tables) == GraphFilesFrom(EdgePool, tables)

\* The same for data files that all hold the edges of `fixed`, before the
\* chosen edges of the pool.
GraphFilesOver(fixed, pool, tables) ==
  { [ input_to_symbol |-> <<>>,
      forwards |-> <<>>,
      backwards |-> <<>>,
      states |-> <<>>,
      intersections |-> <<>>,
      vertices |-> vertices,
      null_edges |-> (0 :> <<>>)
                     @@ (1 :> EdgeList(fixed, "null", 1..Len(fixed), 1)
                              \o EdgeList(pool, "null", chosen, 1))
                     @@ (2 :> EdgeList(fixed, "null", 1..Len(fixed), 1)
                              \o EdgeList(pool, "null", chosen, 1)),
      char_edges |-> (0 :> <<>>)
                     @@ (1 :> EdgeList(fixed, "char", 1..Len(fixed), 1)
                              \o EdgeList(pool, "char", chosen, 1))
                     @@ (2 :> <<>>),
      start_vertex |-> 1,
      final_vertex |-> 2 ] :
    chosen \in {c \in SUBSET (1..Len(pool)) : Cardinality(c) <= MaxEdges},
    vertices \in tables }

GraphFiles == GraphFilesWith({GraphVertices, KeyedVertices})

EdgeLists == UNION {[1..n -> {1, 2}] : n \in 1..MaxCols}

\* generate_json_formatted_parse_tree(g, edges) called with any data file
\* and edge list, in either version.
InitBT ==
  /\ variant = "none"
  /\ as_json = TRUE
  /\ g \in GraphFiles
  /\ input = <<>>
  /\ pc = "json"
  /\ s = <<>>
  /\ fstate = 1
  /\ forwards = <<>>
  /\ bstate = 1
  /\ mapped = <<>>
  /\ backwards = <<>>
  /\ intersections = <<>>
  /\ edges \in EdgeLists
  /\ dotIx = 1
  /\ stdout = <<>>
  /\ stderr = <<>>
  /\ caller = "direct"
  /\ version \in {"js", "readme"}
  /\ parsers = <<FirstParser(g)>>
  /\ tree = [kind |-> "none", out |-> <<>>, path |-> <<>>]
  /\ processed = {}
  /\ o = {}
  /\ parseGraph = {}
  /\ heads = <<>>
  /\ todo = <<>>
  /\ seen = {}
  /\ ax = 0
  /\ worked = <<>>
  /\ cb = NoCombine

NextBT ==
  \/ ParserStep
  \/ ParserExhausted

SpecBT == InitBT /\ [][NextBT]_vars

\* Vertex 3 is a `start` vertex that names no `final` vertex.
NoWithVertices ==
  [v \in DOMAIN GraphVertices |->
     IF v = 3 THEN [GraphVertices[v] EXCEPT !.with = Undef]
     ELSE GraphVertices[v]]

\* generate_json_formatted_parse_tree(g, edges) called with a data file of
\* `files` and any edge list, in either version.
InitCallOn(files) ==
  /\ variant = "none"
  /\ as_json = TRUE
  /\ g \in files
  /\ input = <<>>
  /\ pc = "json"
  /\ s = <<>>
  /\ fstate = 1
  /\ forwards = <<>>
  /\ bstate = 1
  /\ mapped = <<>>
  /\ backwards = <<>>
  /\ intersections = <<>>
  /\ edges \in EdgeLists
  /\ dotIx = 1
  /\ stdout = <<>>
  /\ stderr = <<>>
  /\ caller = "direct"
  /\ version \in {"js", "readme"}
  /\ parsers = <<FirstParser(g)>>
  /\ tree = [kind |-> "none", out |-> <<>>, path |-> <<>>]
  /\ processed = {}
  /\ o = {}
  /\ parseGraph = {}
  /\ heads = <<>>
  /\ todo = <<>>
  /\ seen = {}
  /\ ax = 0
  /\ worked = <<>>
  /\ cb = NoCombine

InitBTNoWith == InitCallOn(GraphFilesWith({NoWithVertices}))

SpecBTNoWith == InitBTNoWith /\ [][NextBT]_vars

\* Edges of a grammar whose start symbol S refers to itself: vertex 1, the
\* `start` of S, is entered again after a character (1 -> 1, 2 -> 1), and
\* vertex 2, the `final` of S and the final vertex of the graph, has
\* successors (2 -> 2, 2 -> 3).
NestedEdgePool ==
  << <<"null", 1, 2>>, <<"null", 2, 2>>, <<"null", 2, 3>>, <<"null", 3, 4>>,
     <<"null", 4, 2>>, <<"char", 1, 1>>, <<"char", 1, 2>>, <<"char", 2, 1>> >>

InitBTNested == InitCallOn(GraphFilesFrom(NestedEdgePool, {GraphVertices}))

SpecBTNested == InitBTNested /\ [][NextBT]_vars

----------------------------------------------------------------------------
(* The parallel simulation of README.md: the stack graph $o *)

\* pair($ax, $vid)
pair(offset, vid) == <<offset, vid>>

\* The orders in which a Graph::Directed can enumerate the set S.
Orders(S) ==
  {f \in [1..Cardinality(S) -> S] : \A i, j \in 1..Cardinality(S) :
      i # j => f[i] # f[j]}

\* The edges of $null and of $char for column `col`.
NullGraph(d, es, col) ==
  LET list == d.null_edges[es[col + 1]]
  IN  {<<pair(col, list[k][1]), pair(col, list[k][2])>> : k \in 1..Len(list)}
CharGraph(d, es, col) ==
  LET list == d.char_edges[es[col + 1]]
  IN  {<<pair(col, list[k][1]), pair(col + 1, list[k][2])>> : k \in 1..Len(list)}

\* $both
BothGraph(d, es, col) == NullGraph(d, es, col) \cup CharGraph(d, es, col)

\* $graph->successors($v) and $graph->predecessors($v), as sets.
SuccessorsOf(graph, v) == {e[2] : e \in {x \in graph : x[1] = v}}
PredecessorsOf(graph, v) == {e[1] : e \in {x \in graph : x[2] = v}}

\* $d->{vertices}[$vid]{type} // ""
TypeOf(d, vid) == IF vid \in DOMAIN d.vertices THEN d.vertices[vid].type ELSE ""

\* for (...; $ax < @edges; ...) { ...; my %seen; my @todo = @heads;
PRColumn ==
  /\ pc = "column"
  /\ ax < Len(edges)
  /\ parseGraph' = parseGraph \cup BothGraph(g, edges, ax)
  /\ seen' = {}
  /\ todo' = heads
  /\ pc' = "todo"
  /\ worked' = <<>>
  /\ UNCHANGED <<variant, as_json, g, input, s, fstate, forwards, bstate,
                 mapped, backwards, intersections, edges, dotIx, stdout,
                 stderr, btVars, o, heads, ax, cb>>

\* if (not $seen{$v}++) { push @todo, $v; push @todo, $null->successors($v);
PRFirstVisit ==
  /\ pc = "todo"
  /\ todo # <<>>
  /\ Head(todo) \notin seen
  /\ LET v == Head(todo)
     IN  /\ seen' = seen \cup {v}
         /\ \E order \in Orders(SuccessorsOf(NullGraph(g, edges, ax), v)) :
               todo' = Tail(todo) \o <<v>> \o order
  /\ UNCHANGED <<variant, as_json, g, input, pc, s, fstate, forwards, bstate,
                 mapped, backwards, intersections, edges, dotIx, stdout,
                 stderr, btVars, o, parseGraph, heads, ax,
                 worked, cb>>

\* The branch for `start` and `if` vertices with the vertex put back on
\* @todo.
PRStartAgain ==
  /\ pc = "todo"
  /\ todo # <<>>
  /\ Head(todo) \in seen
  /\ TypeOf(g, Head(todo)[2]) \in {"start", "if"}
  /\ LET v == Head(todo)
     IN  o' = o \cup {<<v, x>> : x \in SuccessorsOf(BothGraph(g, edges, ax), v)}
  /\ todo' = Tail(todo) \o <<Head(todo)>>
  /\ UNCHANGED <<variant, as_json, g, input, pc, s, fstate, forwards, bstate,
                 mapped, backwards, intersections, edges, dotIx, stdout,
                 stderr, btVars, parseGraph, heads, seen, ax, worked, cb>>

\* $o->add_edge($v, $_) for $both->successors($v);
PRStart ==
  /\ pc = "todo"
  /\ todo # <<>>
  /\ Head(todo) \in seen
  /\ TypeOf(g, Head(todo)[2]) \in {"start", "if"}
  /\ LET v == Head(todo)
     IN  o' = o \cup {<<v, x>> : x \in SuccessorsOf(BothGraph(g, edges, ax), v)}
  /\ todo' = Tail(todo)
  /\ worked' = Append(worked, Head(todo))
  /\ UNCHANGED <<variant, as_json, g, input, pc, s, fstate, forwards, bstate,
                 mapped, backwards, intersections, edges, dotIx, stdout,
                 stderr, btVars, parseGraph, heads, seen, ax, cb>>

\* not ($d->{vertices}[$pid]{with} // '') eq $vid, which Perl parses as
\* (!($d->{vertices}[$pid]{with} // '')) eq $vid: the negation is 1 for a
\* `with` that is missing or 0 and the empty string otherwise.
WithDiffers(d, pid, vid) ==
  LET with == IF pid \in DOMAIN d.vertices THEN d.vertices[pid].with ELSE Undef
  IN  IF with = Undef \/ with = 0 THEN vid = 1 ELSE FALSE

\* for my $s ($both->successors($v)) { for my $pp ($o->predecessors($parent))
\* { next if $o->has_edge($pp, $s); $o->add_edge($pp, $s); push @todo, $s; } }
RECURSIVE PopSuccessors(_, _, _, _, _)
PopSuccessors(oo, pushed, parent, succs, k) ==
  IF k > Len(succs) THEN [o |-> oo, pushed |-> pushed]
  ELSE LET sx == succs[k]
           new == {pp \in PredecessorsOf(oo, parent) : <<pp, sx>> \notin oo}
       IN  PopSuccessors(oo \cup {<<pp, sx>> : pp \in new},
                         pushed \o [i \in 1..Cardinality(new) |-> sx],
                         parent, succs, k + 1)

\* for my $parent ($o->predecessors($v)) { ... }
RECURSIVE PopParents(_, _, _, _, _, _, _)
PopParents(d, oo, pushed, v, parents, succs, k) ==
  IF k > Len(parents) THEN [o |-> oo, pushed |-> pushed]
  ELSE LET parent == parents[k]
       IN  IF WithDiffers(d, parent[2], v[2])
           THEN PopParents(d, oo \ {<<parent, v>>}, pushed, v, parents, succs,
                           k + 1)
           ELSE LET r == PopSuccessors(oo, pushed, parent, succs, 1)
                IN  PopParents(d, r.o, r.pushed, v, parents, succs, k + 1)

\* The branch for `final` and `fi` vertices.
PRFinal ==
  /\ pc = "todo"
  /\ todo # <<>>
  /\ Head(todo) \in seen
  /\ TypeOf(g, Head(todo)[2]) \in {"final", "fi"}
  /\ LET v == Head(todo)
     IN  \E parents \in Orders(PredecessorsOf(o, v)) :
         \E succs \in Orders(SuccessorsOf(BothGraph(g, edges, ax), v)) :
            LET r == PopParents(g, o, <<>>, v, parents, succs, 1)
            IN  /\ o' = r.o
                /\ todo' = Tail(todo) \o r.pushed
  /\ worked' = Append(worked, Head(todo))
  /\ UNCHANGED <<variant, as_json, g, input, pc, s, fstate, forwards, bstate,
                 mapped, backwards, intersections, edges, dotIx, stdout,
                 stderr, btVars, parseGraph, heads, seen, ax, cb>>

\* for my $s ($both->successors($v)) { $o->add_edge($_, $s) for
\* $o->predecessors($v); }
PROther ==
  /\ pc = "todo"
  /\ todo # <<>>
  /\ Head(todo) \in seen
  /\ TypeOf(g, Head(todo)[2]) \notin {"start", "if", "final", "fi"}
  /\ LET v == Head(todo)
     IN  o' = o \cup {<<pp, sx>> : pp \in PredecessorsOf(o, v),
                                   sx \in SuccessorsOf(BothGraph(g, edges, ax), v)}
  /\ todo' = Tail(todo)
  /\ worked' = Append(worked, Head(todo))
  /\ UNCHANGED <<variant, as_json, g, input, pc, s, fstate, forwards, bstate,
                 mapped, backwards, intersections, edges, dotIx, stdout,
                 stderr, btVars, parseGraph, heads, seen, ax, cb>>

\* @heads = uniq map { $_->[1] } $char->edges; and ++$ax
PRColumnDone ==
  /\ pc = "todo"
  /\ todo = <<>>
  /\ \E order \in Orders({e[2] : e \in CharGraph(g, edges, ax)}) :
        heads' = order
  /\ ax' = ax + 1
  /\ pc' = "column"
  /\ UNCHANGED <<variant, as_json, g, input, s, fstate, forwards, bstate,
                 mapped, backwards, intersections, edges, dotIx, stdout,
                 stderr, btVars, o, parseGraph, todo, seen,
                 worked, cb>>

\* The for loop over the columns ends.
PRDone ==
  /\ pc = "column"
  /\ ax = Len(edges)
  /\ pc' = "prdone"
  /\ UNCHANGED <<variant, as_json, g, input, s, fstate, forwards, bstate,
                 mapped, backwards, intersections, edges, dotIx, stdout,
                 stderr, btVars, prVars, cb>>

\* my $start = pair(0, $d->{start_vertex});
\* my $final = pair($#edges, $d->{final_vertex});
StartPair(d) == pair(0, d.start_vertex)
FinalPair(d, es) == pair(Len(es) - 1, d.final_vertex)

\* The vertices reachable from the vertices of `from` in `graph`.
RECURSIVE ReachableFrom(_, _)
ReachableFrom(graph, from) ==
  LET more == from \cup UNION {SuccessorsOf(graph, v) : v \in from}
  IN  IF more = from THEN from ELSE ReachableFrom(graph, more)

\* "If the $o graph has an edge $o->has_edge($start, $final) and the $final
\* vertex is reachable from $start, then the input matches the grammar."
InputMatches ==
  /\ <<StartPair(g), FinalPair(g, edges)>> \in o
  /\ FinalPair(g, edges) \in ReachableFrom(parseGraph, {StartPair(g)})

\* The simulation run on any data file and edge list.
InitPR ==
  /\ variant = "none"
  /\ as_json = FALSE
  /\ g \in GraphFilesWith({GraphVertices})
  /\ input = <<>>
  /\ pc = "column"
  /\ s = <<>>
  /\ fstate = 1
  /\ forwards = <<>>
  /\ bstate = 1
  /\ mapped = <<>>
  /\ backwards = <<>>
  /\ intersections = <<>>
  /\ edges \in EdgeLists
  /\ dotIx = 1
  /\ stdout = <<>>
  /\ stderr = <<>>
  /\ caller = "perl"
  /\ version = "readme"
  /\ parsers = <<>>
  /\ tree = [kind |-> "none", out |-> <<>>, path |-> <<>>]
  /\ processed = {}
  /\ o = {}
  /\ parseGraph = {}
  /\ heads = <<StartPair(g)>>
  /\ todo = <<>>
  /\ seen = {}
  /\ ax = 0
  /\ worked = <<>>
  /\ cb = NoCombine

NextPR ==
  \/ PRColumn
  \/ PRFirstVisit
  \/ PRStart
  \/ PRFinal
  \/ PROther
  \/ PRColumnDone
  \/ PRDone

SpecPR == InitPR /\ [][NextPR]_vars

\* Vertices 5 to 8 have no type: they do not touch the stack.
ChainVertices ==
  (0 :> NoVertex) @@ (1 :> Vtx("start", "S", 2)) @@ (2 :> Vtx("final", "S", 1))
  @@ (3 :> Vtx("start", "A", 4)) @@ (4 :> Vtx("final", "A", 3))
  @@ (5 :> NoVertex) @@ (6 :> NoVertex) @@ (7 :> NoVertex) @@ (8 :> NoVertex)

\* Every data file has the chain 5 -> 7 -> 8 of null edges.
ChainEdges == << <<"null", 5, 7>>, <<"null", 7, 8>> >>

\* Vertex 5 is reached from vertex 1 directly and over 3 and 6, the chain
\* leads on to the `final` vertices, and the `final` vertex 4 is followed by
\* a character.
ChainEdgePool ==
  << <<"null", 1, 5>>, <<"null", 1, 3>>, <<"null", 3, 6>>, <<"null", 6, 5>>,
     <<"null", 8, 4>>, <<"null", 4, 2>>, <<"null", 1, 2>>, <<"char", 1, 5>>,
     <<"null", 5, 3>>, <<"null", 3, 4>>, <<"char", 4, 5>> >>

\* The simulation run on data files with these edges.
InitPRChain ==
  /\ variant = "none"
  /\ as_json = FALSE
  /\ g \in GraphFilesOver(ChainEdges, ChainEdgePool, {ChainVertices})
  /\ input = <<>>
  /\ pc = "column"
  /\ s = <<>>
  /\ fstate = 1
  /\ forwards = <<>>
  /\ bstate = 1
  /\ mapped = <<>>
  /\ backwards = <<>>
  /\ intersections = <<>>
  /\ edges \in EdgeLists
  /\ dotIx = 1
  /\ stdout = <<>>
  /\ stderr = <<>>
  /\ caller = "perl"
  /\ version = "readme"
  /\ parsers = <<>>
  /\ tree = [kind |-> "none", out |-> <<>>, path |-> <<>>]
  /\ processed = {}
  /\ o = {}
  /\ parseGraph = {}
  /\ heads = <<StartPair(g)>>
  /\ todo = <<>>
  /\ seen = {}
  /\ ax = 0
  /\ worked = <<>>
  /\ cb = NoCombine

SpecPRChain == InitPRChain /\ [][NextPR]_vars

\* Vertices 3 and 4 are an `if` and its `fi`; vertex 5 stands on the `not`
\* part between them.
IfVertices ==
  (0 :> NoVertex) @@ (1 :> Vtx("start", "S", 2)) @@ (2 :> Vtx("final", "S", 1))
  @@ (3 :> Vtx("if", "", 4)) @@ (4 :> Vtx("fi", "", 3))
  @@ (5 :> [NoVertex EXCEPT !.text = "not"])

\* From the `if` to the `fi` directly, or over the `not` part.
IfEdgePool ==
  << <<"null", 1, 3>>, <<"null", 3, 4>>, <<"null", 3, 5>>, <<"null", 5, 4>>,
     <<"null", 4, 2>>, <<"char", 3, 4>>, <<"char", 5, 5>> >>

\* The simulation run on data files with `if` and `fi` vertices.
InitPRIf ==
  /\ variant = "none"
  /\ as_json = FALSE
  /\ g \in GraphFilesFrom(IfEdgePool, {IfVertices})
  /\ input = <<>>
  /\ pc = "column"
  /\ s = <<>>
  /\ fstate = 1
  /\ forwards = <<>>
  /\ bstate = 1
  /\ mapped = <<>>
  /\ backwards = <<>>
  /\ intersections = <<>>
  /\ edges \in EdgeLists
  /\ dotIx = 1
  /\ stdout = <<>>
  /\ stderr = <<>>
  /\ caller = "perl"
  /\ version = "readme"
  /\ parsers = <<>>
  /\ tree = [kind |-> "none", out |-> <<>>, path |-> <<>>]
  /\ processed = {}
  /\ o = {}
  /\ parseGraph = {}
  /\ heads = <<StartPair(g)>>
  /\ todo = <<>>
  /\ seen = {}
  /\ ax = 0
  /\ worked = <<>>
  /\ cb = NoCombine

SpecPRIf == InitPRIf /\ [][NextPR]_vars

\* Edges with cycles of null edges: 3 -> 4 -> 3 through a `start` and its
\* `final`, 1 -> 3 -> 4 -> 2 -> 1 through the start and the final vertex,
\* and 5 -> 5 on a vertex that is neither.
CycleEdgePool ==
  << <<"null", 1, 3>>, <<"null", 3, 4>>, <<"null", 4, 3>>, <<"null", 4, 2>>,
     <<"null", 2, 1>>, <<"null", 1, 5>>, <<"null", 5, 5>>, <<"char", 3, 4>>,
     <<"char", 5, 5>> >>

\* The simulation run on data files with these edges.
InitPRCycles ==
  /\ variant = "none"
  /\ as_json = FALSE
  /\ g \in GraphFilesFrom(CycleEdgePool, {GraphVertices})
  /\ input = <<>>
  /\ pc = "column"
  /\ s = <<>>
  /\ fstate = 1
  /\ forwards = <<>>
  /\ bstate = 1
  /\ mapped = <<>>
  /\ backwards = <<>>
  /\ intersections = <<>>
  /\ edges \in EdgeLists
  /\ dotIx = 1
  /\ stdout = <<>>
  /\ stderr = <<>>
  /\ caller = "perl"
  /\ version = "readme"
  /\ parsers = <<>>
  /\ tree = [kind |-> "none", out |-> <<>>, path |-> <<>>]
  /\ processed = {}
  /\ o = {}
  /\ parseGraph = {}
  /\ heads = <<StartPair(g)>>
  /\ todo = <<>>
  /\ seen = {}
  /\ ax = 0
  /\ worked = <<>>
  /\ cb = NoCombine

\* The script runs on its own: a step that can be taken is taken.
SpecPRLive == InitPRCycles /\ [][NextPR]_vars /\ WF_vars(NextPR)

----------------------------------------------------------------------------
(* Both higher-level parsers on the same data file and edge list *)

\* The simulation first, as in InitPR, then the backtracking parser of
\* README.md.
InitBoth ==
  /\ variant = "none"
  /\ as_json = TRUE
  /\ g \in GraphFiles
  /\ input = <<>>
  /\ pc = "column"
  /\ s = <<>>
  /\ fstate = 1
  /\ forwards = <<>>
  /\ bstate = 1
  /\ mapped = <<>>
  /\ backwards = <<>>
  /\ intersections = <<>>
  /\ edges \in EdgeLists
  /\ dotIx = 1
  /\ stdout = <<>>
  /\ stderr = <<>>
  /\ caller = "both"
  /\ version = "readme"
  /\ parsers = <<>>
  /\ tree = [kind |-> "none", out |-> <<>>, path |-> <<>>]
  /\ processed = {}
  /\ o = {}
  /\ parseGraph = {}
  /\ heads = <<StartPair(g)>>
  /\ todo = <<>>
  /\ seen = {}
  /\ ax = 0
  /\ worked = <<>>
  /\ cb = NoCombine

\* generate_json_formatted_parse_tree(g, edges) called once the simulation
\* is over.
StartBacktracker ==
  /\ pc = "prdone"
  /\ caller = "both"
  /\ parsers' = <<FirstParser(g)>>
  /\ pc' = "json"
  /\ UNCHANGED <<variant, as_json, g, input, s, fstate, forwards, bstate,
                 mapped, backwards, intersections, edges, dotIx, stdout,
                 stderr, caller, version, tree, processed, prVars, cb>>

NextBoth ==
  \/ PRColumn
  \/ PRFirstVisit
  \/ PRStart
  \/ PRFinal
  \/ PROther
  \/ PRColumnDone
  \/ PRDone
  \/ StartBacktracker
  \/ ParserStep
  \/ ParserExhausted

SpecBoth == InitBoth /\ [][NextBoth]_vars

----------------------------------------------------------------------------
(* Properties of the main script *)

\* The automaton table the forward pass reads.
ForwardTable == IF variant = "readme" THEN g.forwards ELSE g.states

\* The transition function of a sparse table: a missing transition, and a
\* missing row, lead to state 0.
Delta(table, st, sym) ==
  IF st \in DOMAIN table /\ sym \in DOMAIN table[st].transitions
  THEN table[st].transitions[sym] ELSE 0

\* The accepts flag of state st is false.
NonAccepting(st) ==
  IF variant = "readme" THEN g.forwards[st].accepts = 0
  ELSE g.states[st].is_accepting \in {0, Undef}

\* The main script has finished its forward pass and its test of the final
\* forward state.
PastCheck == caller = "main" /\ pc \notin {"map", "forward", "check"}

\* C3: when the forward pass is over, forward_states has len(input) + 1
\* entries, the first is 1, each next one is the transition of the previous
\* one on the input symbol, a missing transition yields 0, and every state
\* after the first 0 is 0.
C3_ForwardStates ==
  (pc = "check" /\ variant \in {"readme", "states"}) =>
     /\ Len(forwards) = Len(input) + 1
     /\ forwards[1] = 1
     /\ \A i \in 1..Len(input) :
          forwards[i + 1] = Delta(ForwardTable, forwards[i], s[i])
     /\ \A i \in 1..Len(forwards) : \A j \in i..Len(forwards) :
          forwards[i] = 0 => forwards[j] = 0

\* The forward states in the order of the input (README.md reverses the
\* array in place before the backward pass).
ForwardStates == Reverse(forwards)

\* C4 as stated: b_n = 1, b_(i-1) is the backward transition of b_i on
\* forward_states[i], and the edge-set identifier emitted at position i of
\* edge_ids is b_i.
C4_BackwardAsStated ==
  (variant = "readme" /\ pc = "emit") =>
     LET n == Len(input)
     IN  /\ Len(edges) = n + 1
         /\ edges[n + 1] = 1
         /\ \A i \in 1..n :
              edges[i] = Delta(g.backwards, edges[i + 1], ForwardStates[i + 1])

\* C4 amended: the backward pass makes one transition per forward state,
\* forward_states[n] included: with e_(n+1) = 1, the identifier at position
\* i of edge_ids is e_i = the backward transition of e_(i+1) on
\* forward_states[i], for i = n down to 0 (0 for a missing transition).
C4_BackwardPass ==
  (variant = "readme" /\ pc = "emit") =>
     LET n == Len(input)
         After(k) == IF k = n + 1 THEN 1 ELSE edges[k + 1]
     IN  /\ Len(edges) = n + 1
         /\ \A k \in 1..(n + 1) :
              edges[k] = Delta(g.backwards, After(k), ForwardStates[k])

C4_Witness ==
  /\ variant = "readme" /\ pc = "emit"
  /\ Len(input) >= 2
  /\ edges[Len(edges)] = 2
  /\ edges[1] # edges[2]

\* The terminal edge set the final forward state determines.
TerminalEdgeSet ==
  IF variant = "readme" THEN Delta(g.backwards, 1, fstate)
  ELSE g.states[fstate].terminal_edges

\* C5: once the main script has computed edge_ids, the list has
\* len(input) + 1 entries and its last entry is the terminal edge set
\* determined by the final forward state.
C5_EdgeIdsLength ==
  (caller = "main" /\ pc \in {"emit", "dot", "json", "returned", "done"}) =>
     /\ Len(edges) = Len(input) + 1
     /\ edges[Len(edges)] = TerminalEdgeSet

C5_Witness ==
  /\ variant = "states" /\ pc = "emit"
  /\ Len(input) = 2
  /\ edges = <<2, 2, 1>>

\* C6: when the accepts flag of the final forward state is false, the run
\* ends rejected: no backward pass is run and nothing is written to stdout.
C6_RejectedStops ==
  (PastCheck /\ fstate \in DOMAIN ForwardTable /\ NonAccepting(fstate)) =>
     /\ pc = "rejected"
     /\ edges = <<>>
     /\ stdout = <<>>

FirstZeroOrLength ==
  LET zeros == {k \in 1..Len(forwards) : forwards[k] = 0}
  IN  IF zeros = {} THEN Len(input)
      ELSE (CHOOSE k \in zeros : \A j \in zeros : k <= j) - 1

\* C8: on rejection the offset written to stderr is the smallest i whose
\* forward state is 0, or len(input) when there is none.
C8_FailureOffset ==
  pc = "rejected" => stderr = << <<"failed around", FirstZeroOrLength>> >>

\* C9: in README.md's main script, for an accepted input every entry of
\* edge_ids, the 0 substituted for a missing backward transition included,
\* has an entry in null_edges and in char_edges, and the GraphViz writer
\* never reads an undefined edge list.
C9_EdgeIdsDefined ==
  variant = "readme" =>
     /\ pc # "TypeError"
     /\ pc \in {"emit", "dot", "done"} =>
          \A k \in 1..Len(edges) :
             edges[k] \in DOMAIN g.null_edges /\ edges[k] \in DOMAIN g.char_edges

C9_Witness ==
  /\ variant = "readme" /\ pc = "done"
  /\ Len(input) >= 1
  /\ g.backwards[1].transitions = <<>>
  /\ \A k \in 1..Len(edges) : edges[k] = 0

\* C10: when the parsers of the backtracking parser are used up without a
\* match, the main script writes no tree text to stdout.
C10_NoParseNoOutput ==
  (caller = "main" /\ tree.kind = "undefined" /\ pc = "done") => stdout = <<>>

----------------------------------------------------------------------------
(* Properties of generate_json_formatted_parse_tree *)

\* The path starts at (0, start_vertex), ends at final_vertex, and each step
\* follows a null edge (same offset) or a char edge (next offset) of the edge
\* set of the offset it leaves.
IsParsePath(d, es, path) ==
  /\ path # <<>>
  /\ path[1] = <<0, d.start_vertex>>
  /\ path[Len(path)][2] = d.final_vertex
  /\ \A k \in 1..(Len(path) - 1) :
       LET off == path[k][1]
           step == <<path[k][2], path[k + 1][2]>>
           id == EdgeAt(es, off)
           Has(list) == \E j \in 1..Len(list) : list[j] = step
       IN  /\ id \in DOMAIN d.null_edges
           /\ \/ path[k + 1][1] = off /\ Has(d.null_edges[id])
              \/ path[k + 1][1] = off + 1 /\ Has(d.char_edges[id])

\* The stack of open `start` vertices after path[k..], begun with `open`;
\* <<0>> stands for a `final` vertex that closes nothing or the wrong frame.
RECURSIVE Nest(_, _, _, _)
Nest(d, path, k, open) ==
  IF k > Len(path) THEN open
  ELSE LET v == path[k][2]
           type == d.vertices[v].type
       IN  IF type = "start" THEN Nest(d, path, k + 1, Append(open, v))
           ELSE IF type = "final"
           THEN IF open # <<>> /\ d.vertices[open[Len(open)]].with = v
                THEN Nest(d, path, k + 1, SubSeq(open, 1, Len(open) - 1))
                ELSE <<0>>
           ELSE Nest(d, path, k + 1, open)

WellNested(d, path) == Nest(d, path, 1, <<>>) = <<>>

\* C1: when the backtracking parser returns a tree, the path its parser took
\* is a path of the parse graph from the start vertex to the final vertex
\* on which every `start` vertex is closed by the `final` vertex its `with`
\* names, innermost first, and none is left open.
C1_TreeIsWellNested ==
  tree.kind = "tree" =>
     /\ IsParsePath(g, edges, tree.path)
     /\ WellNested(g, tree.path)

C1_Witness ==
  /\ caller = "direct" /\ tree.kind = "tree"
  /\ \E k \in 1..Len(tree.path) : tree.path[k][2] = 4
  /\ Len(edges) = 2

----------------------------------------------------------------------------
(* Properties of the parallel simulation *)

\* The stack of open `start` vertices after entering vertex v with the stack
\* `open`; <<0>> when v is a `final` vertex that closes nothing or does not
\* close the innermost open vertex.
Enter(d, v, open) ==
  LET type == TypeOf(d, v)
  IN  IF type = "start" THEN Append(open, v)
      ELSE IF type = "final"
      THEN IF open # <<>> /\ d.vertices[open[Len(open)]].with = v
           THEN SubSeq(open, 1, Len(open) - 1)
           ELSE <<0>>
      ELSE open

\* The configurations <<offset, vertex, stack>> one edge of the parse graph
\* after configuration c.
NestedSteps(d, es, c) ==
  IF c[1] + 1 > Len(es) \/ Len(c[3]) >= MaxPath THEN {}
  ELSE LET id == es[c[1] + 1]
           nulls == d.null_edges[id]
           chars == d.char_edges[id]
           via(list, to) ==
             {<<to, list[k][2], Enter(d, list[k][2], c[3])>> :
                k \in {j \in 1..Len(list) : list[j][1] = c[2]}}
       IN  {x \in via(nulls, c[1]) \cup via(chars, c[1] + 1) : x[3] # <<0>>}

RECURSIVE NestedClosure(_, _, _)
NestedClosure(d, es, cs) ==
  LET more == cs \cup UNION {NestedSteps(d, es, c) : c \in cs}
  IN  IF more = cs THEN cs ELSE NestedClosure(d, es, more)

\* A properly nested path leads from (0, start_vertex) to (n, final_vertex).
NestedPathExists(d, es) ==
  <<Len(es) - 1, d.final_vertex, <<>>>> \in
     NestedClosure(d, es, {<<0, d.start_vertex, Enter(d, d.start_vertex, <<>>)>>})

\* C2: after all columns have been processed, $o has the edge from
\* (0, start_vertex) to (n, final_vertex) and the latter is reachable in the
\* parse graph if and only if a properly nested path from (0, start_vertex)
\* to (n, final_vertex) exists.
C2_AcceptsIffNestedPath ==
  pc = "prdone" => (InputMatches <=> NestedPathExists(g, edges))


----------------------------------------------------------------------------
(* C11: the resolver never fails with an unhandled error *)

\* C11: called with any data file and edge list, in either version,
\* generate_json_formatted_parse_tree never throws: it never reads `edges`
\* at an offset >= edges.length and never calls filter on an undefined list
\* of edges.
C11_NoUnhandledError == caller = "direct" => pc # "TypeError"

----------------------------------------------------------------------------
(* C12: the order of the successors *)

\* `out` is `inp` sorted ascending by sort_key (a missing key counting as 0)
\* with elements of equal keys in the order they have in `inp`.
IsStableSort(d, inp, out) ==
  /\ Len(out) = Len(inp)
  /\ \E perm \in [1..Len(inp) -> 1..Len(inp)] :
       /\ \A i, j \in 1..Len(inp) : i # j => perm[i] # perm[j]
       /\ \A i \in 1..Len(inp) : out[i] = inp[perm[i]]
       /\ \A i, j \in 1..Len(inp) :
            i < j =>
              \/ SortKey(d, out[i].successor) < SortKey(d, out[j].successor)
              \/ /\ SortKey(d, out[i].successor) = SortKey(d, out[j].successor)
                 /\ perm[i] < perm[j]

\* The successor that parser q was made from, p being the parser it was made
\* of.
TakenBy(p, q) ==
  [successor |-> q.vertex,
   type |-> IF q.offset = p.offset THEN "null" ELSE "char"]

\* An iteration that moved the head parser to a successor.
Expanded == pc = "json" /\ pc' = "json" /\ Len(parsers') >= Len(parsers)

\* The successors in the order the iteration used them: the one the head
\* parser moved to, then those of the parsers it recorded.
Explored ==
  <<TakenBy(parsers[1], parsers'[1])>>
  \o [k \in 1..(Len(parsers') - Len(parsers)) |->
        TakenBy(parsers[1], parsers'[Len(parsers) + k])]

\* C12: in every expansion the successors are explored in the order of a
\* stable ascending sort by sort_key of the list "null successors followed
\* by char successors", so with equal keys a null successor comes before a
\* char successor.
C12_SuccessorsSorted ==
  [][Expanded =>
       LET p == parsers[1]
           id == EdgeAt(edges, p.offset)
       IN  IsStableSort(g, Matching(g.null_edges[id], p.vertex, "null")
                           \o Matching(g.char_edges[id], p.vertex, "char"),
                        Explored)]_vars

\* Vertex 3 has the successors 4 (null), 6 (null), 4 (char) in this order and
\* vertex 4 has sort_key 1: the head parser has moved to 6, and the parsers
\* recorded last are the one for the null edge to 4, then the one for the
\* char edge to 4.
C12_Witness ==
  /\ caller = "direct" /\ pc = "json"
  /\ Len(parsers) >= 3
  /\ g.vertices[4].sort_key = 1
  /\ LET h == parsers[1]
         a == parsers[Len(parsers) - 1]
         b == parsers[Len(parsers)]
     IN  /\ Len(h.path) >= 2
         /\ h.path[Len(h.path) - 1] = <<0, 3>>
         /\ Last(h.path) = <<0, 6>>
         /\ Front(a.path) = Front(h.path) /\ Last(a.path) = <<0, 4>>
         /\ Front(b.path) = Front(h.path) /\ Last(b.path) = <<1, 4>>

----------------------------------------------------------------------------
(* C13: the order of the search *)

\* The answer of a depth-first search that never comes back.
NoAnswer == << <<Undef, Undef>> >>

\* The path of the first match in depth-first priority order from parser p:
\* the parser follows its successors in sorted order and a successor is
\* tried only when all the ones before it, with everything below them, have
\* failed.  <<>> when there is no match, NoAnswer when the search runs into
\* a configuration it is in already.
RECURSIVE DepthFirst(_, _, _, _)
RECURSIVE FirstOf(_, _, _, _, _, _)
DepthFirst(d, es, p, open) ==
  IF Config(p) \in open THEN NoAnswer
  ELSE
  LET type == d.vertices[p.vertex].type
      p1 == IF type = "start" THEN OpenFrame(p) ELSE p
      discard == /\ type = "final"
                 /\ \/ p1.stack = <<>>
                    \/ WithMismatch(d, p1, Last(p1.stack))
      p2 == IF type = "final" /\ ~discard THEN CloseFrame(p1) ELSE p1
  IN  IF discard THEN <<>>
      ELSE IF Accepts(d, es, p2) THEN p2.path
      ELSE IF p2.offset >= Len(es) THEN <<>>
      ELSE FirstOf(d, es, p2, Successors(d, es, p2), 1,
                   open \cup {Config(p)})

FirstOf(d, es, p2, ss, k, open) ==
  IF k > Len(ss) THEN <<>>
  ELSE LET r == DepthFirst(d, es, Moved(p2, ss[k]), open)
       IN  IF r # <<>> THEN r ELSE FirstOf(d, es, p2, ss, k + 1, open)

\* C13: the tree the function returns is that of the first match in
\* depth-first priority order (for the README.md version, and where a
\* depth-first search has an answer).
C13_DepthFirstOrder ==
  (caller = "direct" /\ version = "readme" /\ pc = "returned"
     /\ tree.kind = "tree") =>
    LET r == DepthFirst(g, edges, FirstParser(g), {})
    IN  r = NoAnswer \/ tree.path = r

----------------------------------------------------------------------------
(* C14: the offsets of the root node *)

\* C14: when the function returns a tree, the root node (opened first,
\* closed last) starts at offset 0 and ends at offset n, the length of the
\* input, n + 1 being the length of `edges`.
C14_RootSpansInput ==
  (caller = "direct" /\ pc = "returned" /\ tree.kind = "tree") =>
    /\ tree.out # <<>>
    /\ Head(tree.out) = <<"[", g.start_vertex, 1>>
    /\ Last(tree.out) = <<"]", 0, Len(edges) - 1>>

----------------------------------------------------------------------------
(* C15: the offsets of the parsers *)

\* C15: every parser of the `parsers` array, the head parser and the ones
\* recorded for later, has an offset within [0, n], n + 1 being the length
\* of `edges`.
C15_OffsetWithinInput ==
  caller = "direct" =>
    \A k \in 1..Len(parsers) : parsers[k].offset \in 0..(Len(edges) - 1)

----------------------------------------------------------------------------
(* C16: the worklist of a column *)

\* C16: in every column the @todo list becomes empty, whatever the edges,
\* cycles of null edges included.
C16_TodoEmpties == (pc = "todo") ~> (pc = "todo" /\ todo = <<>>)

\* The null edges of the column hold the cycle 3 -> 4 -> 3, both vertices
\* have been worked on, and @todo is empty.
C16_Witness ==
  /\ caller = "perl" /\ pc = "todo" /\ todo = <<>>
  /\ <<pair(ax, 3), pair(ax, 4)>> \in NullGraph(g, edges, ax)
  /\ <<pair(ax, 4), pair(ax, 3)>> \in NullGraph(g, edges, ax)
  /\ {pair(ax, 3), pair(ax, 4)} \subseteq seen

----------------------------------------------------------------------------
(* C17: the backtracking parser on what the simulation accepts *)

\* C17: when the simulation accepts, the backtracking parser run on the same
\* data file and edge list comes to an end, returning a tree or running out
\* of parsers: it neither throws nor gets into a loop that never ends.
C17_BacktrackerEnds ==
  (caller = "both" /\ InputMatches) => pc \notin {"diverged", "TypeError"}

----------------------------------------------------------------------------
(* C18: `if` and `fi` vertices *)

\* In the data files of InitPRIf every path from the start vertex to the
\* final vertex goes through the `if` in column 0 and its `fi` in the last
\* column: the `not` part matches when vertex 5 links the two.
NotPartMatches ==
  LET n == Len(edges) - 1
  IN  /\ <<pair(0, 3), pair(0, 5)>> \in parseGraph
      /\ <<pair(n, 5), pair(n, 4)>> \in parseGraph
      /\ pair(n, 5) \in ReachableFrom({e \in parseGraph :
                                          e[1][2] = 5 /\ e[2][2] = 5},
                                       {pair(0, 5)})

\* C18: when there is a path from an `if` to its `fi` over the `not` part,
\* the simulation rejects the paths the `if` guards: they do not make the
\* input match.
C18_AndNotGuard ==
  (caller = "perl" /\ pc = "prdone" /\ g.vertices[3].type = "if"
     /\ NotPartMatches) => ~InputMatches

----------------------------------------------------------------------------
(* C19: the data file is only read *)

----------------------------------------------------------------------------
(* C20: loading a data file that lacks a part *)

\* The data file has no start_vertex or no final_vertex, no state 1 in the
\* tables the passes read, or null_edges and char_edges of different length.
IsLacking(d) ==
  \/ d.start_vertex = Undef
  \/ d.final_vertex = Undef
  \/ (variant = "readme" /\ (1 \notin DOMAIN d.forwards
                               \/ 1 \notin DOMAIN d.backwards))
  \/ (variant # "readme" /\ 1 \notin DOMAIN d.states)
  \/ DOMAIN d.null_edges # DOMAIN d.char_edges

\* C20: with such a data file the run fails when the file is loaded: no step
\* of a parse is made and nothing is written.
C20_LackingFileRejected ==
  (caller = "main" /\ IsLacking(g)) =>
    /\ pc = "map"
    /\ stdout = <<>>

----------------------------------------------------------------------------
(* C21: the graph in the DOT output *)

\* The graph a reader of the output gets: an edge from node "a,b" to node
\* "c,d" for every line "a,b" -> "c,d".
ReadDot(out) ==
  {<< <<out[k].val[1], out[k].val[2]>>, <<out[k].val[3], out[k].val[4]>> >> :
     k \in {j \in 1..Len(out) : out[j].kind = "edge"}}

\* The parse graph of the edge list es: null edges within their column, char
\* edges into the next column.
ParseGraphOf(d, es) ==
  UNION {
    {<< <<i - 1, d.null_edges[es[i]][k][1]>>,
        <<i - 1, d.null_edges[es[i]][k][2]>> >> :
       k \in 1..Len(d.null_edges[es[i]])}
    \cup
    {<< <<i - 1, d.char_edges[es[i]][k][1]>>,
        <<i, d.char_edges[es[i]][k][2]>> >> :
       k \in 1..Len(d.char_edges[es[i]])} : i \in 1..Len(es)}

\* The GraphViz writer has written its last line.
DotWritten == caller = "main" /\ pc = "done" /\ ~(variant = "states" /\ as_json)

\* C21: the edges of the DOT output are exactly those of the parse graph:
\* (i, from) -> (i, to) for the null edges of column i, (i, from) -> (i + 1, to)
\* for its char edges, and no other.
C21_DotIsParseGraph ==
  DotWritten => ReadDot(stdout) = ParseGraphOf(g, edges)

\* The output is complete and has an edge within a column and an edge from a
\* column into the next.
C21_Witness ==
  /\ DotWritten
  /\ \E e \in ReadDot(stdout) : e[1][1] = e[2][1]
  /\ \E e \in ReadDot(stdout) : e[1][1] + 1 = e[2][1]

----------------------------------------------------------------------------
(* C22: the symbol of a code unit *)

\* C22: in every version of the script the symbol of a code unit is 0 when
\* the code unit lies outside g.input_to_symbol or its entry is 0, and its
\* entry otherwise.
C22_SymbolOfCodeUnit ==
  (caller = "main" /\ pc = "forward") =>
    /\ Len(s) = Len(input)
    /\ \A k \in 1..Len(input) :
         s[k] = IF input[k] \in DOMAIN g.input_to_symbol
                   /\ g.input_to_symbol[input[k]] # 0
                THEN g.input_to_symbol[input[k]]
                ELSE 0

----------------------------------------------------------------------------
(* C23: the empty input *)

\* C23: for the empty input the README.md script goes on to the backward
\* pass if and only if g.forwards[1].accepts holds, and then `edges` has one
\* entry.
C23_EmptyInput ==
  (variant = "readme" /\ input = <<>> /\ PastCheck) =>
    /\ (pc # "rejected") <=> (g.forwards[1].accepts = 1)
    /\ pc \in {"emit", "dot", "done"} => Len(edges) = 1

\* The empty input was accepted and the run is over.
C23_Witness ==
  /\ variant = "readme" /\ input = <<>> /\ caller = "main" /\ pc = "done"
  /\ g.forwards[1].accepts = 1
  /\ Len(edges) = 1

----------------------------------------------------------------------------
(* C24: one code unit outside the map *)

\* C24: when the input is a single code unit outside g.input_to_symbol, the
\* README.md script maps it to symbol 0, the forward state after it is 0,
\* and the run is rejected with offset 0 in the message.
C24_UnmappedCodeUnit ==
  (variant = "readme" /\ Len(input) = 1
     /\ input[1] \notin DOMAIN g.input_to_symbol /\ PastCheck) =>
    /\ s = <<0>>
    /\ forwards = <<1, 0>>
    /\ pc = "rejected"
    /\ stderr = << <<"failed around", 0>> >>

----------------------------------------------------------------------------
(* C25: a `start` vertex without `with` *)

\* The head parser stands on a `start` vertex that has no `with`.
AtStartWithoutWith ==
  /\ pc = "json" /\ parsers # <<>>
  /\ parsers[1].vertex \in DOMAIN g.vertices
  /\ g.vertices[parsers[1].vertex].type = "start"
  /\ g.vertices[parsers[1].vertex].with = Undef

\* C25: a parser that reaches a `start` vertex without `with` is discarded
\* in that iteration, at that vertex.
C25_DiscardedAtStart ==
  [][AtStartWithoutWith => parsers' = Tail(parsers)]_vars

----------------------------------------------------------------------------
(* C26: the exit status of the script *)

\* The status node ends with: the scripts never call process.exit and never
\* set process.exitCode, so it is 0 when the callback returns (also through
\* the `return` after "failed around") and 1 after an uncaught exception.
ExitStatus == IF pc = "TypeError" THEN 1 ELSE 0

\* C26: the script ends with status 0 when the input was accepted and the
\* output written, with 1 when the input was rejected, and with 2 when the
\* data file is malformed.
C26_ExitStatus ==
  caller = "main" =>
    /\ pc = "done" => ExitStatus = 0
    /\ pc = "rejected" => ExitStatus = 1
    /\ (pc = "TypeError" /\ IsLacking(g)) => ExitStatus = 2

----------------------------------------------------------------------------
(* C27: when a tree is returned *)

\* The head parser after the handling of a `start` or `final` vertex.
Handled(d, p) ==
  LET type == d.vertices[p.vertex].type
  IN  IF type = "start" THEN OpenFrame(p)
      ELSE IF type = "final" /\ p.stack # <<>> THEN CloseFrame(p)
      ELSE p

\* The handling of a `final` vertex discards the head parser.
Unmatched(d, p) ==
  /\ d.vertices[p.vertex].type = "final"
  /\ \/ p.stack = <<>>
     \/ d.vertices[Last(p.stack).vertex].with # p.vertex

\* The successors of the parser in the parse graph: none past the last edge
\* set.
GraphSuccessors(d, es, p) ==
  IF EdgeAt(es, p.offset) \in DOMAIN d.null_edges \cap DOMAIN d.char_edges
  THEN Successors(d, es, p) ELSE <<>>

\* An iteration of the loop on a head parser that has a vertex of the graph.
Iteration ==
  /\ pc = "json" /\ pc' # "diverged"
  /\ parsers # <<>>
  /\ parsers[1].vertex \in DOMAIN g.vertices

\* C27: a tree is returned only in an iteration in which the head parser,
\* after the handling of its vertex, is at the final vertex with
\* offset + 1 >= edges.length and an empty stack; a parser that is at the
\* final vertex without the other two is not discarded for that: it goes on
\* with its successors, the first for itself and one new parser for each
\* other.
C27_ReturnsOnlyOnMatch ==
  [][Iteration =>
       LET p == Handled(g, parsers[1])
           gone == Unmatched(g, parsers[1])
           next == GraphSuccessors(g, edges, p)
       IN  /\ pc' = "returned" =>
                /\ ~gone
                /\ p.vertex = g.final_vertex
                /\ p.offset + 1 >= Len(edges)
                /\ p.stack = <<>>
           /\ ( /\ ~gone
                /\ p.vertex = g.final_vertex
                /\ ~(p.offset + 1 >= Len(edges) /\ p.stack = <<>>)
                /\ next # <<>> ) =>
                /\ pc' = "json"
                /\ Len(parsers') = Len(parsers) + Len(next) - 1
                /\ TakenBy(p, parsers'[1]) = [successor |-> next[1].successor,
                                              type |-> next[1].type]
                /\ parsers'[1].stack = p.stack]_vars

\* A tree is returned by a parser that was at the final vertex in the
\* iteration before, at the end of the input but with a frame left on its
\* stack, and went on along the null edge from the final vertex to itself.
C27_Witness ==
  /\ pc = "returned"
  /\ \E j \in 1..(Len(tree.path) - 1) :
       /\ tree.path[j] = <<Len(edges) - 1, g.final_vertex>>
       /\ tree.path[j + 1] = tree.path[j]

----------------------------------------------------------------------------
(* C28: the head parser at a `final` vertex *)

\* An iteration whose head parser is at a `final` vertex.
AtFinal == Iteration /\ g.vertices[parsers[1].vertex].type = "final"

\* The parsers the iteration has made of the head parser: the head parser
\* itself if it is still in the array, and those added for its successors.
Continued ==
  IF pc' = "json" /\ Len(parsers') >= Len(parsers)
  THEN {parsers'[1]} \cup {parsers'[k] : k \in (Len(parsers) + 1)..Len(parsers')}
  ELSE IF pc' \in {"returned", "TypeError"} THEN {parsers'[1]}
  ELSE {}

\* C28: when the head parser is at a `final` vertex v and its stack is empty
\* or the `with` of the vertex of the top frame is not v, the parser is
\* removed and the next parser of the array becomes the head; otherwise the
\* top frame, and only it, is popped and the node is closed with the offset
\* of that frame and the offset of the parser.
C28_FinalVertex ==
  [][AtFinal =>
       LET p == parsers[1]
       IN  IF p.stack = <<>>
              \/ g.vertices[Last(p.stack).vertex].with # p.vertex
           THEN pc' = "json" /\ parsers' = Tail(parsers)
           ELSE \A q \in Continued :
                  /\ q.stack = Front(p.stack)
                  /\ q.output = Append(p.output,
                                       <<"]", Last(p.stack).offset, p.offset>>)
      ]_vars

\* A parser has closed a node from offset 0 to offset 1 under a frame that
\* stays on its stack, after an iteration has dropped a parser that was at a
\* `final` vertex that is not the `with` of its top frame.
C28_Witness ==
  /\ pc = "json"
  /\ \E k \in 1..Len(parsers) :
       /\ \E j \in 1..Len(parsers[k].output) :
            parsers[k].output[j] = <<"]", 0, 1>>
       /\ parsers[k].stack # <<>>
  /\ \E c \in processed :
       /\ g.vertices[c[2]].type = "final"
       /\ c[3] # <<>>
       /\ g.vertices[Last(c[3]).vertex].with # c[2]

----------------------------------------------------------------------------
(* C29: the stack and the output of a recorded parser *)

\* The parser that parsers[k] is after the iteration: the array has lost its
\* head unless the head parser went on, returned or failed.
After(k) ==
  IF \/ pc' = "json" /\ Len(parsers') >= Len(parsers)
     \/ pc' \in {"returned", "TypeError"}
  THEN parsers'[k] ELSE parsers'[k - 1]

\* C29: the parsers an iteration adds have the stack and the output the head
\* parser has at that point, and no iteration changes the stack or the
\* output of a parser other than the head parser, whatever it pushes, pops
\* or appends.
C29_OwnStackAndOutput ==
  [][Iteration =>
       LET p == Handled(g, parsers[1])
           n == Len(parsers)
       IN  /\ \A k \in 2..n :
                /\ After(k).stack = parsers[k].stack
                /\ After(k).output = parsers[k].output
           /\ \A k \in (n + 1)..Len(parsers') :
                /\ parsers'[k].stack = p.stack
                /\ parsers'[k].output = p.output
      ]_vars

\* A parser recorded by the head parser at a branch still has the stack and
\* output of the branch after the head parser has pushed a frame and
\* appended to its output.
C29_Witness ==
  /\ pc = "json"
  /\ \E k \in 2..Len(parsers) :
       LET q == parsers[k]
           h == parsers[1]
           m == Len(q.path) - 1
       IN  /\ m \in 1..(Len(h.path) - 1)
           /\ SubSeq(h.path, 1, m) = SubSeq(q.path, 1, m)
           /\ Len(h.stack) > Len(q.stack)
           /\ Len(h.output) > Len(q.output)
           /\ q.stack = SubSeq(h.stack, 1, Len(q.stack))
           /\ q.output = SubSeq(h.output, 1, Len(q.output))

----------------------------------------------------------------------------
(* C30: the moves of a parser *)

\* The pair <<from, to>> is in the list.
HasPair(list, from, to) == \E k \in 1..Len(list) : list[k] = <<from, to>>

\* C30: every move of a parser from (offset, v) follows an edge of the parse
\* graph: the vertex it gets is the second of a pair of
\* null_edges[edges[offset]] or of char_edges[edges[offset]] whose first is
\* v; the offset is one more for a pair of char_edges and the same for a
\* pair of null_edges.  That holds for the head parser and for every parser
\* the iteration adds.
C30_MovesFollowEdges ==
  [][(Iteration /\ Expanded) =>
       LET p == Handled(g, parsers[1])
           id == edges[p.offset + 1]
       IN  \A q \in Continued :
             \/ /\ HasPair(g.null_edges[id], p.vertex, q.vertex)
                /\ q.offset = p.offset
             \/ /\ HasPair(g.char_edges[id], p.vertex, q.vertex)
                /\ q.offset = p.offset + 1
      ]_vars

\* The head parser has moved along a null edge, and the parser recorded for
\* the other successor of the same vertex along a char edge.
C30_Witness ==
  /\ pc = "json"
  /\ \E k \in 2..Len(parsers) :
       LET q == parsers[k]
           h == parsers[1]
           m == Len(h.path)
       IN  /\ m >= 2 /\ Len(q.path) = m
           /\ SubSeq(h.path, 1, m - 1) = SubSeq(q.path, 1, m - 1)
           /\ h.path[m][1] = h.path[m - 1][1]
           /\ q.path[m][1] = h.path[m - 1][1] + 1
           /\ HasPair(g.null_edges[edges[h.offset + 1]],
                      h.path[m - 1][2], h.vertex)
           /\ HasPair(g.char_edges[edges[h.offset + 1]],
                      h.path[m - 1][2], q.vertex)

----------------------------------------------------------------------------
(* C31: the search is exhaustive *)

\* The well-nested walks of the parse graph, step by step, without the
\* function: from (offset, vertex) with the open frames `stack`, a `start`
\* vertex opens a frame, a `final` vertex closes the top frame if that is
\* the frame of its `with` and ends the walk otherwise, and the walk goes on
\* along a null edge in its column or a char edge to the next.
NestedDead(d, c) ==
  /\ d.vertices[c[2]].type = "final"
  /\ \/ c[3] = <<>>
     \/ d.vertices[Last(c[3]).vertex].with # c[2]

\* The open frames of the walk when it leaves its vertex.
NestedStack(d, c) ==
  IF d.vertices[c[2]].type = "start"
  THEN Append(c[3], [vertex |-> c[2], offset |-> c[1]])
  ELSE IF d.vertices[c[2]].type = "final" /\ c[3] # <<>> THEN Front(c[3])
  ELSE c[3]

NestedNext(d, es, c) ==
  LET off == c[1]
      v == c[2]
      stack == NestedStack(d, c)
  IN  IF NestedDead(d, c) \/ off + 1 > Len(es) \/ Len(stack) > MaxPath
      THEN {}
      ELSE {<<off, d.null_edges[es[off + 1]][k][2], stack>> :
              k \in {j \in 1..Len(d.null_edges[es[off + 1]]) :
                       d.null_edges[es[off + 1]][j][1] = v}}
           \cup
           {<<off + 1, d.char_edges[es[off + 1]][k][2], stack>> :
              k \in {j \in 1..Len(d.char_edges[es[off + 1]]) :
                       d.char_edges[es[off + 1]][j][1] = v}}

RECURSIVE NestedReach(_, _, _)
NestedReach(d, es, cs) ==
  LET more == cs \cup UNION {NestedNext(d, es, c) : c \in cs}
  IN  IF more = cs THEN cs ELSE NestedReach(d, es, more)

\* The walk is at (n, final_vertex) and leaves no frame open.
NestedEnd(d, es, c) ==
  /\ c[1] = Len(es) - 1
  /\ c[2] = d.final_vertex
  /\ ~NestedDead(d, c)
  /\ NestedStack(d, c) = <<>>

\* The function has returned undefined.
Exhausted == caller = "direct" /\ pc = "returned" /\ tree.kind = "undefined"

\* C31: the function runs out of parsers only when the parse graph has no
\* well-nested path from (0, start_vertex) to (n, final_vertex), and then
\* every (offset, vertex, stack) a well-nested walk from (0, start_vertex)
\* gets to has been the head parser of an iteration: no successor was
\* dropped unexplored.
C31_Exhaustive ==
  Exhausted =>
    LET walks == NestedReach(g, edges, {<<0, g.start_vertex, <<>>>>})
    IN  /\ \A c \in walks : ~NestedEnd(g, edges, c)
        /\ walks \subseteq processed

\* The function has run out of parsers after several iterations, one of them
\* at a `final` vertex with the frame of another vertex on top of its
\* stack, and one on a parser recorded at a branch.
C31_Witness ==
  /\ Exhausted
  /\ Cardinality(processed) >= 5
  /\ \E c \in processed :
       /\ g.vertices[c[2]].type = "final"
       /\ c[3] # <<>>
       /\ g.vertices[Last(c[3]).vertex].with # c[2]
  /\ \E c, e \in processed : c[1] = e[1] /\ c[2] # e[2] /\ c[3] = e[3]

----------------------------------------------------------------------------
(* C32: the simulation at a `final` or `fi` vertex *)

\* The work on a vertex of type `final` or `fi` that has been seen.
AtPRFinal ==
  /\ pc = "todo" /\ todo # <<>>
  /\ Head(todo) \in seen
  /\ TypeOf(g, Head(todo)[2]) \in {"final", "fi"}

\* The `with` of the vertex of p is the vertex of v.
WithIs(d, p, v) == p[2] \in DOMAIN d.vertices /\ d.vertices[p[2]].with = v[2]

\* The vertices pushed on @todo by the step.
Pushed == SubSeq(todo', Len(todo), Len(todo'))

\* C32: when a vertex v of type `final` or `fi` is worked on, every edge
\* p -> v of $o whose p has another `with` than v is deleted; for every
\* other predecessor p, every successor s of v and every predecessor pp of p
\* in $o the edge pp -> s is in $o afterwards, and s is pushed on @todo when
\* that edge is new.
C32_FinalTransfers ==
  [][AtPRFinal =>
       LET v == Head(todo)
           succs == SuccessorsOf(BothGraph(g, edges, ax), v)
       IN  \A p \in PredecessorsOf(o, v) :
             IF ~WithIs(g, p, v)
             THEN <<p, v>> \notin o'
             ELSE \A sx \in succs : \A pp \in PredecessorsOf(o, p) :
                    /\ <<pp, sx>> \in o'
                    /\ <<pp, sx>> \notin o =>
                         \E k \in 1..Len(Pushed) : Pushed[k] = sx
      ]_vars

----------------------------------------------------------------------------
(* C33: the order of the work in a column *)

\* No vertex of the graph is reachable from its own successors.
Acyclic(graph) ==
  \A e \in graph : e[1] \notin ReachableFrom(graph, {e[2]})

\* The elements of a list.
Range(list) == {list[k] : k \in 1..Len(list)}

\* The vertices of the column that the null edges lead to from @heads.
FromHeads == ReachableFrom(NullGraph(g, edges, ax), Range(heads))

\* C33: in a column whose null edges have no cycle, a vertex is worked on
\* (its stack edges are handed to its successors) only after all of its
\* predecessors over null edges that are reachable from @heads have been
\* worked on.
C33_TopologicalOrder ==
  (caller = "perl" /\ pc = "todo" /\ Acyclic(NullGraph(g, edges, ax))) =>
    \A j \in 1..Len(worked) :
      \A u \in PredecessorsOf(NullGraph(g, edges, ax), worked[j]) \cap FromHeads :
        \E k \in 1..(j - 1) : worked[k] = u

----------------------------------------------------------------------------
(* C36: the stack graph at the end of a column *)

\* The work on the column is over.
ColumnEnd == caller = "perl" /\ pc = "todo" /\ todo = <<>>

\* C36: at the end of the work on a column, for every vertex v worked on
\* that has no stack type and every successor s of v, every predecessor of
\* v in $o is a predecessor of s in $o; and for every `final` or `fi` vertex
\* v worked on, every predecessor p of v in $o whose `with` is v and every
\* successor s of v, every predecessor of p in $o is a predecessor of s.
C36_ClosedAtColumnEnd ==
  ColumnEnd =>
    \A v \in Range(worked) :
      \A sx \in SuccessorsOf(BothGraph(g, edges, ax), v) :
        /\ TypeOf(g, v[2]) \notin {"start", "if", "final", "fi"} =>
             PredecessorsOf(o, v) \subseteq PredecessorsOf(o, sx)
        /\ TypeOf(g, v[2]) \in {"final", "fi"} =>
             \A p \in PredecessorsOf(o, v) :
               WithIs(g, p, v) =>
                 PredecessorsOf(o, p) \subseteq PredecessorsOf(o, sx)

----------------------------------------------------------------------------
(* C34: @heads *)

\* C34: after the work on column c, @heads holds exactly the vertices
\* (c + 1, to) that the char edges of edges[c] lead to, and in column c + 1
\* only vertices that the null edges of the column lead to from @heads are
\* worked on.
C34_HeadsAndTheirColumn ==
  (caller = "perl" /\ ax >= 1) =>
    /\ pc = "column" =>
         /\ Range(heads) = {e[2] : e \in CharGraph(g, edges, ax - 1)}
         /\ Cardinality(Range(heads)) = Len(heads)
    /\ pc = "todo" => Range(worked) \subseteq FromHeads

----------------------------------------------------------------------------
(* combine(): the automaton over pairs of states *)

\* Data::AutoBimap with start => 0, as the list of its strings: the string
\* at position n + 1 has the number n.
NumberOf(m, str) == (CHOOSE k \in 1..Len(m) : m[k] = str) - 1

\* $m->s2n($str): the number of the string, a new one if it has none.
s2n(m, str) ==
  IF \E k \in 1..Len(m) : m[k] = str
  THEN [m |-> m, n |-> NumberOf(m, str)]
  ELSE [m |-> Append(m, str), n |-> Len(m)]

\* $m->n2s($n)
n2s(m, n) == m[n + 1]

\* $a->[$s]{transitions}{$via} // 0
TransitionOrZero(a, st, via) ==
  IF st \in DOMAIN a /\ via \in DOMAIN a[st].transitions
  THEN a[st].transitions[via] ELSE 0

\* $a->[$s]{accepts}, undef for a state the array does not hold.
AcceptsOf(a, st) == IF st \in DOMAIN a THEN a[st].accepts ELSE Undef

\* An accepting state for pairs of accepting states: $x & $y.
AcceptsAnd(acc1, acc2) ==
  IF ~Falsy(acc1) /\ ~Falsy(acc2) THEN 1 ELSE 0

\* (!$a1->[$s1]{accepts}) & $a2->[$s2]{accepts}: the negation is 1 or 0 and
\* the bitwise and with it keeps the lowest bit of the other number (0 for
\* undef).
AcceptsNotAnd(acc1, acc2) ==
  IF Falsy(acc1) /\ acc2 # Undef /\ acc2 % 2 = 1 THEN 1 ELSE 0

\* for my $via (@$alphabet) { ... } for the state $current = pair (s1, s2),
\* from the k-th symbol on.
RECURSIVE ViaLoop(_, _, _)
ViaLoop(c, current, k) ==
  IF k > Len(c.alphabet) THEN c
  ELSE LET via == c.alphabet[k]
           st == n2s(c.sm, current)
           sym == n2s(c.im, via)
           r == s2n(c.sm, <<TransitionOrZero(c.a1, st[1], sym[1]),
                            TransitionOrZero(c.a2, st[2], sym[2])>>)
           had == IF current \in DOMAIN c.states
                  THEN c.states[current].transitions ELSE <<>>
       IN  IF r.n = 0
           THEN ViaLoop([c EXCEPT !.sm = r.m], current, k + 1)
           ELSE ViaLoop([c EXCEPT
                           !.sm = r.m,
                           !.states = [n \in DOMAIN c.states \cup {current} |->
                                         IF n = current
                                         THEN [transitions |->
                                                 [v \in DOMAIN had \cup {via} |->
                                                    IF v = via THEN r.n
                                                    ELSE had[v]],
                                               accepts |-> Undef]
                                         ELSE c.states[n]],
                           !.todo = Append(@, r.n)],
                        current, k + 1)

\* One turn of while (@todo) on a state not seen before.  `explored` is not
\* in the code: the states the turns have worked on, in order.
CombineVisit ==
  /\ cb.pc = "combine"
  /\ cb.todo # <<>>
  /\ Head(cb.todo) \notin cb.seen
  /\ LET current == Head(cb.todo)
         c == ViaLoop([cb EXCEPT !.todo = Tail(@),
                                 !.seen = @ \cup {current},
                                 !.explored = Append(@, current)],
                      current, 1)
         st == n2s(cb.sm, current)
         had == IF current \in DOMAIN c.states
                THEN c.states[current].transitions ELSE <<>>
     IN  cb' = [c EXCEPT
                  !.states = [n \in DOMAIN c.states \cup {current} |->
                                IF n = current
                                THEN [transitions |-> had,
                                      accepts |->
                                        AcceptsNotAnd(AcceptsOf(cb.a1, st[1]),
                                                      AcceptsOf(cb.a2, st[2]))]
                                ELSE c.states[n]]]
  /\ UNCHANGED <<pipeVars, btVars, prVars>>

\* next if $seen{$current}++;
CombineSeen ==
  /\ cb.pc = "combine"
  /\ cb.todo # <<>>
  /\ Head(cb.todo) \in cb.seen
  /\ cb' = [cb EXCEPT !.todo = Tail(@)]
  /\ UNCHANGED <<pipeVars, btVars, prVars>>

\* return @states; and $forwards[0] = { transitions => {} };
CombineReturn ==
  /\ cb.pc = "combine"
  /\ cb.todo = <<>>
  /\ cb' = [cb EXCEPT
              !.pc = "combined",
              !.states = [n \in DOMAIN cb.states \cup {0} |->
                            IF n = 0
                            THEN [transitions |-> <<>>, accepts |-> Undef]
                            ELSE cb.states[n]]]
  /\ UNCHANGED <<pipeVars, btVars, prVars>>

\* The automata of a data file over the symbol 1, with the states 1 and 2:
\* a state has a transition to 1 or to 2 or none, and accepts or not; state
\* 0 has no transition and no `accepts`.
Automata ==
  { (0 :> [transitions |-> <<>>, accepts |-> Undef])
    @@ (1 :> [transitions |-> t1, accepts |-> c1])
    @@ (2 :> [transitions |-> t2, accepts |-> c2]) :
      t1 \in {<<>>, <<1>>, <<2>>}, t2 \in {<<>>, <<1>>, <<2>>},
      c1 \in {0, 1}, c2 \in {0, 1} }

\* The symbols of the new alphabet: 0 for the pair (0, 0), then the pairs
\* for characters that both data files, only the first, or only the second
\* map to their symbol 1.
SymbolMap == << <<0, 0>>, <<1, 1>>, <<1, 0>>, <<0, 1>> >>

\* combine($d1->{forwards}, $d2->{forwards}, $sm, $fm, $fm->s2n(pair(1, 1)),
\* [@alphabet]) after $fm->s2n(pair(0, 0)).
InitCombine ==
  /\ variant = "none"
  /\ as_json = FALSE
  /\ g = [vertices |-> <<>>]
  /\ input = <<>>
  /\ pc = "combine"
  /\ s = <<>>
  /\ fstate = 1
  /\ forwards = <<>>
  /\ bstate = 1
  /\ mapped = <<>>
  /\ backwards = <<>>
  /\ intersections = <<>>
  /\ edges = <<>>
  /\ dotIx = 1
  /\ stdout = <<>>
  /\ stderr = <<>>
  /\ caller = "combine"
  /\ version = "readme"
  /\ parsers = <<>>
  /\ tree = [kind |-> "none", out |-> <<>>, path |-> <<>>]
  /\ processed = {}
  /\ o = {}
  /\ parseGraph = {}
  /\ heads = <<>>
  /\ todo = <<>>
  /\ seen = {}
  /\ ax = 0
  /\ worked = <<>>
  /\ \E a1 \in Automata, a2 \in Automata :
       cb = [pc |-> "combine", a1 |-> a1, a2 |-> a2, im |-> SymbolMap,
             alphabet |-> [k \in 1..Len(SymbolMap) |-> k - 1],
             sm |-> << <<0, 0>>, <<1, 1>> >>,
             todo |-> <<1>>, seen |-> {}, explored |-> <<>>,
             states |-> <<>>]

NextCombine ==
  \/ CombineVisit
  \/ CombineSeen
  \/ CombineReturn

SpecCombine == InitCombine /\ [][NextCombine]_vars

----------------------------------------------------------------------------
(* C35: the automaton combine() builds *)

\* The state an automaton is in after the symbols of w, from state st.
RECURSIVE StateAfter(_, _, _)
StateAfter(a, st, w) ==
  IF w = <<>> THEN st
  ELSE StateAfter(a, TransitionOrZero(a, st, Head(w)), Tail(w))

\* The automaton accepts the symbols of w.
AcceptsString(a, w) == ~Falsy(AcceptsOf(a, StateAfter(a, 1, w)))

\* The symbols the first and the second automaton see for the symbols of w.
First(w) == [k \in 1..Len(w) |-> n2s(cb.im, w[k])[1]]
Second(w) == [k \in 1..Len(w) |-> n2s(cb.im, w[k])[2]]

\* The strings of symbols of the new alphabet, up to a length.
SymbolStrings ==
  UNION {[1..n -> Range(cb.alphabet)] : n \in 0..(MaxLen + 2)}

\* combine() has returned.
Combined == caller = "combine" /\ cb.pc = "combined"

\* C35: the automaton that combine() builds from A1 and A2 starts in the
\* state of the pair (1, 1); the state of a pair (s1, s2) has for a symbol
\* of the pair (v1, v2) the transition to the state of the pair of the two
\* successors, a missing transition counting as 0 (and none to the state of
\* the pair (0, 0)); every state is worked on at most once; a state accepts
\* exactly when the state of A2 accepts and that of A1 does not; so the
\* automaton accepts a string of symbols iff A2 accepts it and A1 does not.
C35_Difference ==
  Combined =>
    /\ n2s(cb.sm, 1) = <<1, 1>>
    /\ cb.explored # <<>> /\ cb.explored[1] = 1
    /\ \A i, j \in 1..Len(cb.explored) :
         i # j => cb.explored[i] # cb.explored[j]
    /\ \A n \in Range(cb.explored) :
         LET st == n2s(cb.sm, n)
         IN  /\ \A via \in Range(cb.alphabet) :
                  LET sym == n2s(cb.im, via)
                      dst == <<TransitionOrZero(cb.a1, st[1], sym[1]),
                               TransitionOrZero(cb.a2, st[2], sym[2])>>
                      to == TransitionOrZero(cb.states, n, via)
                  IN  /\ to \in Range(cb.explored) \cup {0}
                      /\ n2s(cb.sm, to) = dst
             /\ (cb.states[n].accepts = 1) <=>
                  (~Falsy(AcceptsOf(cb.a2, st[2]))
                     /\ Falsy(AcceptsOf(cb.a1, st[1])))
             /\ cb.states[n].accepts \in {0, 1}
    /\ \A w \in SymbolStrings :
         AcceptsString(cb.states, w) <=>
           (AcceptsString(cb.a2, Second(w)) /\ ~AcceptsString(cb.a1, First(w)))

\* combine() has returned an automaton with an accepting state and with a
\* state for a pair whose first state is 0, after a turn of the loop on a
\* state that was in @todo twice; A1 accepts some string.
C35_Witness ==
  /\ Combined
  /\ Len(cb.explored) >= 4
  /\ \E n \in Range(cb.explored) : cb.states[n].accepts = 1
  /\ \E n \in Range(cb.explored) : n2s(cb.sm, n)[1] = 0
  /\ \E n \in Range(cb.explored) :
       Cardinality({<<m, via>> \in Range(cb.explored) \X Range(cb.alphabet) :
                      TransitionOrZero(cb.states, m, via) = n}) >= 2
  /\ \E w \in SymbolStrings : AcceptsString(cb.a1, First(w))

----------------------------------------------------------------------------
(* C37: the loop of the backtracking parser ends *)

\* C37: called with any data file and any edge list, null edges that form a
\* cycle within a column included, the loop of the function comes to an
\* end: it never gets into a sequence of iterations that repeats for ever.
C37_LoopEnds == caller = "direct" => pc # "diverged"

----------------------------------------------------------------------------
(* C38: a tree of the backtracking parser and the simulation *)

\* C38: for a data file without `if` and `fi` vertices, whenever the
\* backtracking parser returns a tree for an edge list, the simulation run
\* on the same data file and edge list accepts: $o has the edge from
\* (0, start_vertex) to (n, final_vertex) and the latter is reachable.
C38_TreeImpliesAccepted ==
  (caller = "both" /\ pc = "returned" /\ tree.kind = "tree") => InputMatches

----------------------------------------------------------------------------
(* C39: the output and the stack *)

\* The nodes opened and the nodes closed in an output.
Opened(out) == Len(SelectSeq(out, LAMBDA x : x[1] = "["))
Closed(out) == Len(SelectSeq(out, LAMBDA x : x[1] = "]"))

\* Every node that is closed was opened before, and none is left open.
ClosesWhatItOpens(out) ==
  /\ \A k \in 1..Len(out) :
       Closed(SubSeq(out, 1, k)) <= Opened(SubSeq(out, 1, k))
  /\ Opened(out) = Closed(out)

\* C39: at the start of every iteration, for every parser of the array the
\* number of nodes opened and not closed in its output is the length of its
\* stack; so an output that is returned (the stack is empty) closes every
\* node it opens, in the right order.
C39_OutputMatchesStack ==
  caller = "direct" =>
    /\ pc = "json" =>
         \A k \in 1..Len(parsers) :
           Opened(parsers[k].output) - Closed(parsers[k].output)
             = Len(parsers[k].stack)
    /\ (pc = "returned" /\ tree.kind = "tree") => ClosesWhatItOpens(tree.out)

\* A tree is returned in which a node was opened and closed within another,
\* while another parser with an open node is left in the array.
C39_Witness ==
  /\ caller = "direct" /\ pc = "returned" /\ tree.kind = "tree"
  /\ Opened(tree.out) >= 2
  /\ \E k \in 1..(Len(tree.out) - 1) :
       tree.out[k][1] = "[" /\ tree.out[k + 1][1] = "["
  /\ \E k \in 2..Len(parsers) : parsers[k].stack # <<>>

----------------------------------------------------------------------------
(* C40: the reversals are undone before the edges are computed *)

\* The symbol of input position k (1-based), as MapInput computes it.
SymbolAt(k) ==
  IF variant = "part0" THEN MapSymbolPart0(g, input[k])
  ELSE MapSymbol(g, input[k])

\* The backward state reached after consuming the symbols of positions
\* Len(input) down to k, starting from g.states[fstate].backward_start.
RECURSIVE BackwardAfter(_)
BackwardAfter(k) ==
  IF k > Len(input) THEN g.states[fstate].backward_start
  ELSE StatesTransition(g, BackwardAfter(k + 1), SymbolAt(k))

\* The edge set of position k: forward state before the symbol, backward
\* state after consuming the input's end down to the symbol, the symbol.
EdgesAt(k) ==
  EdgeOf(g, Intersection(g, forwards[k], BackwardAfter(k)), SymbolAt(k))

\* C40: in the states/intersections variants, once the edges are computed,
\* the edge set of every input position i is the one looked up with forward
\* state i, the backward state reached after consuming the symbols from the
\* last one down to symbol i, and symbol i in input order; the symbol array
\* is in input order again and the backward states are indexed by position.
C40_ReversalsUndone ==
  (variant # "readme" /\ pc = "emit") =>
    /\ Len(edges) = Len(input) + 1
    /\ \A k \in 1..Len(input) : edges[k] = EdgesAt(k)
    /\ s = [k \in 1..Len(input) |-> SymbolAt(k)]
    /\ backwards = [k \in 1..Len(input) |-> BackwardAfter(k)]

\* A run over two different symbols whose backward states and edge sets
\* differ, so that an order left reversed would show.
C40_Witness ==
  /\ variant # "readme"
  /\ pc = "emit"
  /\ Len(input) = 2
  /\ s[1] # s[2]
  /\ backwards[1] # backwards[2]
  /\ edges[1] # edges[2]
  /\ edges[1] # Undef
  /\ edges[2] # Undef

====
